---- MODULE Spec2Model ----
(***************************************************************************)
(* Verification model of the OneBusAway watchdog: the call-scoped retry    *)
(* loop (internal/config/backoff_time_store.go), the metrics scheduler and *)
(* its per-server pipeline (internal/app), and the in-memory snapshot      *)
(* stores (internal/gtfs, internal/geo, internal/metrics).                 *)
(*                                                                         *)
(* Each subsystem has its own specification (SpecRetry, SpecSched,         *)
(* SpecStore).  All of them share the module's variables; a specification  *)
(* holds the variables of the other subsystems at their initial values.    *)
(***************************************************************************)
EXTENDS Integers, Sequences, FiniteSets, TLC

VARIABLES
    \* ---- DoWithBackoff (one call) ----
    maxRetries,      \* the maxRetries argument
    retryPc,         \* "attempt" | "select" | "done"
    retries,         \* local variable retries
    backoffDelay,    \* local variable backoffDelay, in seconds
    calls,           \* number of client.Do calls made so far
    ctxDone,         \* TRUE once the call's context is cancelled or expired
    lastOutcome,     \* what the latest client.Do returned, and whether ctx was done then
    retResp,         \* returned *http.Response (its status code), 0 for nil
    retErr,          \* returned error: "nil" | "exhausted" | "ctx"; "none" before return
    retWrapped       \* the client.Do call whose error the returned error wraps, 0 for none

VARIABLES
    \* ---- metrics scheduler (StartMetricsCollection, CollectMetricsForServer) ----
    cfgServers,      \* Config.Servers: the current target list
    schedCtxDone,    \* TRUE once the scheduler's context is cancelled
    tickPending,     \* TRUE while a tick waits in the ticker's channel (capacity 1)
    schedPc,         \* "select" | "collect" | "stopped"
    passServers,     \* local variable servers: the copy GetServers returned for this pass
    idx,             \* position in passServers of the server being collected, 0 outside a pass
    stepPc,          \* next step of CollectMetricsForServer for that server, "none" outside
    ran,             \* per position of this pass: the steps run so far, in order
    errs,            \* per position of this pass: "rt" / "other" if such a step returned an error
    rtStore,         \* RealtimeStore.data: the single stored snapshot, NoSnapshot for nil
    rtFetched        \* per server: whether a fetch of its feed has been stored (history)

VARIABLES
    \* ---- one snapshot store and the goroutines calling its Set and Get ----
    storeKind,       \* which store: "static" | "bbox" | "telemetry" | "realtime"
    storeData,       \* the store's map (the single slot, for the realtime store)
    lockWriter,      \* the goroutine holding the store's mutex for writing, 0 for none
    lockReaders,     \* the goroutines holding the store's mutex for reading
    goroutine,       \* per goroutine: position in Set/Get, arguments, value Get returns
    lastSet          \* per key: the value of the latest completed Set (history)

retryVars == <<maxRetries, retryPc, retries, backoffDelay, calls, ctxDone,
               lastOutcome, retResp, retErr, retWrapped>>

schedVars == <<cfgServers, schedCtxDone, tickPending, schedPc, passServers, idx,
               stepPc, ran, errs, rtStore, rtFetched>>

storeVars == <<storeKind, storeData, lockWriter, lockReaders, goroutine, lastSet>>

VARIABLES
    \* ---- trackVehicleTelemetry, VehicleLastSeen and its eviction routine ----
    vStore,          \* VehicleLastSeen.Store: server id -> vehicle id -> LastSeen
    teleClock,       \* what time.Now() returns, in seconds
    telePc,          \* "idle" | "loop": position of the running telemetry pass
    teleServer,      \* server.ID of that pass, 0 outside a pass
    teleNow,         \* local variable now of that pass, 0 outside a pass
    teleLeft,        \* vehicles of realtimeData.Vehicles the range loop has not reached
    teleRet,         \* what the latest call of trackVehicleTelemetry returned
    trackedGauge,    \* TrackedVehiclesGauge: per server its value, Unset before the first Set
    exposed,         \* <<vehicle id, server id>> label pairs the vehicle-labelled metrics hold
    feedIds,         \* per server: vehicle ids read from the feed of its latest pass (history)
    lastIter,        \* what the latest loop iteration read and published, NoIter otherwise
    lastSweep        \* now and threshold of clear() when it is the latest step, else NoSweep

teleVars == <<vStore, teleClock, telePc, teleServer, teleNow, teleLeft, teleRet,
              trackedGauge, exposed, feedIds, lastIter, lastSweep>>

VARIABLES
    \* ---- trackInvalidVehiclesAndStoppedOutOfBounds (one call) ----
    bbStore,         \* BoundingBoxStore.store: server id -> BoundingBox
    boundsPc,        \* "idle" | "loop" | "done"
    boundsServer,    \* server.ID of the call, 0 before it
    boundsFeed,      \* the vehicles of realtimeData.Vehicles the loop has handled
    boundsLeft,      \* the vehicles of realtimeData.Vehicles still to handle
    invalidCount,    \* local variable invalidCount
    outOfBoundsCount,\* local variable outOfBoundsCount
    invalidGauge,    \* InvalidVehicleCoordinatesGauge, per server
    outOfBoundsGauge,\* StoppedOutOfBoundsVehiclesGauge, per server
    boundsRet        \* what the call returned: "none" | "nil" | "err"

boundsVars == <<bbStore, boundsPc, boundsServer, boundsFeed, boundsLeft, invalidCount,
                outOfBoundsCount, invalidGauge, outOfBoundsGauge, boundsRet>>

VARIABLES
    \* ---- the background loops started by main and the context they share ----
    loopPc,          \* per loop: "select" | "work" | "sleep" | "stopped"
    loopTick,        \* per loop: TRUE while a tick waits in its ticker's channel
    sleepLeft,       \* what is left of the config loop's time.Sleep(interval)
    loopCtxDone      \* TRUE once the shared context is cancelled

loopVars == <<loopPc, loopTick, sleepLeft, loopCtxDone>>

VARIABLES
    \* ---- Config: the target list, its mutex, and the goroutines calling it ----
    cfgSrv,          \* Config.Servers
    cfgWriter,       \* TRUE while UpdateConfig holds cfg.Mu for writing
    cfgReaders,      \* the goroutines holding cfg.Mu for reading
    updNew,          \* argument newServers of the UpdateConfig call in progress
    rdPc,            \* per reading goroutine: "idle" | "rlocked" | "pass"
    rdList,          \* per reading goroutine: the copy GetServers returned
    rdSeen           \* per reading goroutine: the targets its pass has processed

configVars == <<cfgSrv, cfgWriter, cfgReaders, updNew, rdPc, rdList, rdSeen>>

VARIABLES
    \* ---- storeGTFSBundle: the static store, the bounding boxes, the stores running ----
    bundleStatic,    \* StaticStore.data: server id -> StaticSnapshot (its stops)
    bundleBox,       \* BoundingBoxStore.store: server id -> BoundingBox
    bundleTask       \* per goroutine of downloadGTFSBundles: its storeGTFSBundle call

bundleVars == <<bundleStatic, bundleBox, bundleTask>>

VARIABLES
    \* ---- fetchAndStoreGTFSRTFeed: the realtime store and the last call ----
    rtData,          \* RealtimeStore.data: the stored realtime snapshot, NoRealtime for nil
    fetchLast        \* the last call: its response, the snapshot before it, its result

fetchVars == <<rtData, fetchLast>>

VARIABLES
    \* ---- GetClusterID and the stop it is called with ----
    clStop,          \* the gtfs.Stop passed to GetClusterID
    clCalls,         \* calls of GetClusterID made with clStop
    clPrev,          \* what the call before the last returned
    clResult         \* what the last call returned

clusterVars == <<clStop, clCalls, clPrev, clResult>>

VARIABLES
    \* ---- refreshConfig: the config refresh loop and the list it updates ----
    rcServers,       \* cfg.Servers, the current target list
    rcPc,            \* "select" | "load" | "sleep" | "stopped"
    rcCtxDone,       \* TRUE once the loop's context is cancelled
    rcLast           \* the last load: what the remote answered, the list before it

refreshVars == <<rcServers, rcPc, rcCtxDone, rcLast>>

VARIABLES
    \* ---- the match gauges: agency coverage and vehicle count ----
    agenciesMatch,      \* per server: the AgenciesMatch gauge, Unset until first set
    vehicleCountMatch,  \* per server: the VehicleCountMatch gauge, Unset until first set
    matchLast           \* the last check: which, for which server, what the store held
                        \* and what the API answered

matchVars == <<agenciesMatch, vehicleCountMatch, matchLast>>

VARIABLES
    \* ---- the geo package's pure functions, one call at a time ----
    geoCall          \* the last call: the function, its arguments, what it returned

geoVars == <<geoCall>>

VARIABLES
    \* ---- downloadGTFSBundles and the bundle refresh loop that calls it ----
    dlServers,       \* main's local variable servers: the list loaded at startup
    dlCfg,           \* cfg.Servers, the target list the config refresh replaces
    dlPc,            \* "select" | "spawn" | "wait": the caller's position
    dlNext,          \* position in the list of the next goroutine to start
    dlWg,            \* the WaitGroup's counter
    dlTask,          \* per position of the list: the goroutine started for it
    dlStatic,        \* StaticStore.data
    dlBox,           \* BoundingBoxStore.store
    dlAtCall         \* the two stores as they were when the call began (history)

dlVars == <<dlServers, dlCfg, dlPc, dlNext, dlWg, dlTask, dlStatic, dlBox, dlAtCall>>

VARIABLES
    \* ---- readiness: the target list, its refresh, the tick and the health check ----
    rdyServers,      \* cfg.Servers, the current target list
    rdyPass,         \* the servers the last tick collected, NoPass before the first
    rdyHealth,       \* the last health check's response, NoHealth before the first
    rdyLast          \* the last step: which, and what the remote answered to a load

readyVars == <<rdyServers, rdyPass, rdyHealth, rdyLast>>

VARIABLES
    \* ---- CachedPromHandler: its refresh loop and the requests it serves ----
    cache,           \* CachedPromHandler.cache: the cached exposition, <<>> for nil
    cacheWriter,     \* TRUE while the refresh loop holds c.mu for writing
    cacheReaders,    \* the requests holding c.mu for reading
    refreshPc,       \* "select" | "gather" | "lock" | "store" | "stopped"
    refreshBuf,      \* local variable buf of the refresh loop
    cacheTick,       \* TRUE while a tick waits in the ticker's channel (capacity 1)
    cacheCtxDone,    \* TRUE once the context given to NewCachedPromHandler is cancelled
    metricsVersion,  \* the state of the gathered metrics, changed by every collection
    request          \* per request goroutine: position in ServeHTTP, what it wrote

cacheVars == <<cache, cacheWriter, cacheReaders, refreshPc, refreshBuf, cacheTick,
               cacheCtxDone, metricsVersion, request>>

VARIABLES
    \* ---- BackoffStore and the wall clock its calls read ----
    backoffs,        \* BackoffStore.backoffs: server id -> backoffData
    wallClock,       \* what time.Now() returns, in seconds
    consecutive,     \* per id: UpdateBackoff calls since its latest ResetBackoff (history)
    wasReset         \* per id: whether ResetBackoff deleted an entry of it (history)

backoffVars == <<backoffs, wallClock, consecutive, wasReset>>

vars == <<retryVars, schedVars, storeVars, backoffVars, teleVars, boundsVars, cacheVars, loopVars, configVars, bundleVars, fetchVars, clusterVars, refreshVars, matchVars, geoVars, dlVars, readyVars>>

\* What each subsystem's actions leave alone.
notRetryVars == <<schedVars, storeVars, backoffVars, teleVars, boundsVars, cacheVars, loopVars, configVars, bundleVars, fetchVars, clusterVars, refreshVars, matchVars, geoVars, dlVars, readyVars>>
notSchedVars == <<retryVars, storeVars, backoffVars, teleVars, boundsVars, cacheVars, loopVars, configVars, bundleVars, fetchVars, clusterVars, refreshVars, matchVars, geoVars, dlVars, readyVars>>
notStoreVars == <<retryVars, schedVars, backoffVars, teleVars, boundsVars, cacheVars, loopVars, configVars, bundleVars, fetchVars, clusterVars, refreshVars, matchVars, geoVars, dlVars, readyVars>>
notBackoffVars == <<retryVars, schedVars, storeVars, teleVars, boundsVars, cacheVars, loopVars, configVars, bundleVars, fetchVars, clusterVars, refreshVars, matchVars, geoVars, dlVars, readyVars>>
notTeleVars == <<retryVars, schedVars, storeVars, backoffVars, boundsVars, cacheVars, loopVars, configVars, bundleVars, fetchVars, clusterVars, refreshVars, matchVars, geoVars, dlVars, readyVars>>
notBoundsVars == <<retryVars, schedVars, storeVars, backoffVars, teleVars, cacheVars, loopVars, configVars, bundleVars, fetchVars, clusterVars, refreshVars, matchVars, geoVars, dlVars, readyVars>>
notCacheVars == <<retryVars, schedVars, storeVars, backoffVars, teleVars, boundsVars, loopVars, configVars, bundleVars, fetchVars, clusterVars, refreshVars, matchVars, geoVars, dlVars, readyVars>>
notLoopVars == <<retryVars, schedVars, storeVars, backoffVars, teleVars, boundsVars, cacheVars, configVars, bundleVars, fetchVars, clusterVars, refreshVars, matchVars, geoVars, dlVars, readyVars>>
notConfigVars == <<retryVars, schedVars, storeVars, backoffVars, teleVars, boundsVars, cacheVars, loopVars, bundleVars, fetchVars, clusterVars, refreshVars, matchVars, geoVars, dlVars, readyVars>>
notBundleVars == <<retryVars, schedVars, storeVars, backoffVars, teleVars, boundsVars, cacheVars, loopVars, configVars, fetchVars, clusterVars, refreshVars, matchVars, geoVars, dlVars, readyVars>>
notFetchVars == <<retryVars, schedVars, storeVars, backoffVars, teleVars, boundsVars, cacheVars, loopVars, configVars, bundleVars, clusterVars, refreshVars, matchVars, geoVars, dlVars, readyVars>>
notClusterVars == <<retryVars, schedVars, storeVars, backoffVars, teleVars, boundsVars, cacheVars, loopVars, configVars, bundleVars, fetchVars, refreshVars, matchVars, geoVars, dlVars, readyVars>>
notRefreshVars == <<retryVars, schedVars, storeVars, backoffVars, teleVars, boundsVars, cacheVars, loopVars, configVars, bundleVars, fetchVars, clusterVars, matchVars, geoVars, dlVars, readyVars>>
notMatchVars == <<retryVars, schedVars, storeVars, backoffVars, teleVars, boundsVars, cacheVars, loopVars, configVars, bundleVars, fetchVars, clusterVars, refreshVars, geoVars, dlVars, readyVars>>
notGeoVars == <<retryVars, schedVars, storeVars, backoffVars, teleVars, boundsVars, cacheVars, loopVars, configVars, bundleVars, fetchVars, clusterVars, refreshVars, matchVars, dlVars, readyVars>>
notDlVars == <<retryVars, schedVars, storeVars, backoffVars, teleVars, boundsVars, cacheVars, loopVars, configVars, bundleVars, fetchVars, clusterVars, refreshVars, matchVars, geoVars, readyVars>>
notReadyVars == <<retryVars, schedVars, storeVars, backoffVars, teleVars, boundsVars, cacheVars, loopVars, configVars, bundleVars, fetchVars, clusterVars, refreshVars, matchVars, geoVars, dlVars>>

(***************************************************************************)
(* Bounds of the model.                                                    *)
(***************************************************************************)
MaxRetriesArg == 2      \* maxRetries is drawn from 0..MaxRetriesArg
MaxCalls == 4           \* cap on client.Do calls of one DoWithBackoff call
NumServers == 2         \* server ids are 1..NumServers
NumGoroutines == 2      \* goroutines calling one store concurrently
NumVals == 2            \* distinct values (and LastSeen times) written to a store
MaxUpdates == 9         \* cap on consecutive UpdateBackoff calls for one id
MaxClock == 2           \* the wall clock reads 0..MaxClock
RandDenom == 4          \* rand.Float64() is drawn from {0/RandDenom, .., (RandDenom-1)/RandDenom}
MaxTime == 2            \* the telemetry clock and the feed's timestamps are in 0..MaxTime
MaxFeedLen == 2         \* vehicles in one realtime feed
MaxVersion == 2         \* the gathered metrics change at most MaxVersion times
SleepUnits == 2         \* time units in the config loop's refresh interval
MaxAncestors == 2       \* length of a stop's parent chain is in 0..MaxAncestors
MaxCount == 2           \* agencies in a bundle, vehicles in a feed, entries an API list holds: 0..MaxCount

(***************************************************************************)
(* Call-scoped retry: internal/config/backoff_time_store.go                *)
(***************************************************************************)
BASE_BACKOFF == 1       \* seconds
MAX_BACKOFF == 120      \* seconds
BACKOFF_FACTOR == 2

StatusCodes == {200, 404, 500}

NoOutcome == [kind |-> "none", status |-> 0, ctxWasDone |-> FALSE]

\* What client.Do can return: a transport error, or a response with any status.
Outcomes == {[kind |-> "err", status |-> 0]}
            \cup {[kind |-> "resp", status |-> s] : s \in StatusCodes}

calculateNewBackoffDelay_NoCap(d) == d * BACKOFF_FACTOR
calculateNewBackoffDelay(d) ==
    IF d * BACKOFF_FACTOR >= MAX_BACKOFF THEN MAX_BACKOFF ELSE d * BACKOFF_FACTOR

\* line 73: "if err == nil { return resp, nil }" -- only a transport error retries.
IsTransportError_RetriesOn5xx(o) == o.kind = "err" \/ o.status >= 500
IsTransportError(o) == o.kind = "err"

\* line 77: "if maxRetries > 0 && retries >= maxRetries".
RetriesExhausted_OffByOne(max, r) == max > 0 /\ r > max
RetriesExhausted_ZeroIsLimit(max, r) == r >= max
RetriesExhausted(max, r) == max > 0 /\ r >= max

RetryInit ==
    /\ maxRetries \in 0..MaxRetriesArg
    /\ retryPc = "attempt"
    /\ retries = 0
    /\ backoffDelay = BASE_BACKOFF
    /\ calls = 0
    /\ ctxDone \in BOOLEAN
    /\ lastOutcome = NoOutcome
    /\ retResp = 0
    /\ retErr = "none"
    /\ retWrapped = 0

\* DoWithBackoff not being called: the state the other specifications keep.
RetryIdle ==
    /\ maxRetries = 0
    /\ retryPc = "done"
    /\ retries = 0
    /\ backoffDelay = BASE_BACKOFF
    /\ calls = 0
    /\ ctxDone = FALSE
    /\ lastOutcome = NoOutcome
    /\ retResp = 0
    /\ retErr = "none"
    /\ retWrapped = 0

\* a loop that tests ctx.Err() before it calls client.Do
Attempt_ChecksCtxFirst(o) ==
    /\ retryPc = "attempt"
    /\ calls < MaxCalls
    /\ IF ctxDone
       THEN /\ retryPc' = "done"
            /\ retResp' = 0
            /\ retErr' = "ctx"
            /\ UNCHANGED <<calls, lastOutcome, retWrapped>>
       ELSE /\ calls' = calls + 1
            /\ lastOutcome' = [kind |-> o.kind, status |-> o.status, ctxWasDone |-> ctxDone]
            /\ IF ~IsTransportError(o)
               THEN /\ retryPc' = "done"
                    /\ retResp' = o.status
                    /\ retErr' = "nil"
                    /\ UNCHANGED retWrapped
               ELSE IF RetriesExhausted(maxRetries, retries)
               THEN /\ retryPc' = "done"
                    /\ retResp' = 0
                    /\ retErr' = "exhausted"
                    /\ retWrapped' = calls + 1
               ELSE /\ retryPc' = "select"
                    /\ UNCHANGED <<retResp, retErr, retWrapped>>
    /\ UNCHANGED <<maxRetries, retries, backoffDelay, ctxDone>>
    /\ UNCHANGED notRetryVars

\* One pass through lines 72-79: client.Do returns outcome o.
Attempt(o) ==
    /\ retryPc = "attempt"
    /\ calls < MaxCalls
    /\ calls' = calls + 1
    /\ lastOutcome' = [kind |-> o.kind, status |-> o.status, ctxWasDone |-> ctxDone]
    /\ IF ~IsTransportError(o)
       THEN /\ retryPc' = "done"
            /\ retResp' = o.status
            /\ retErr' = "nil"
            /\ UNCHANGED retWrapped
       ELSE IF RetriesExhausted(maxRetries, retries)
       THEN /\ retryPc' = "done"
            /\ retResp' = 0
            /\ retErr' = "exhausted"
            /\ retWrapped' = calls + 1
       ELSE /\ retryPc' = "select"
            /\ UNCHANGED <<retResp, retErr, retWrapped>>
    /\ UNCHANGED <<maxRetries, retries, backoffDelay, ctxDone>>
    /\ UNCHANGED notRetryVars

\* lines 81-83: the select takes the ctx.Done() case.
SelectCtxDone ==
    /\ retryPc = "select"
    /\ ctxDone
    /\ retryPc' = "done"
    /\ retResp' = 0
    /\ retErr' = "ctx"
    /\ UNCHANGED <<maxRetries, retries, backoffDelay, calls, ctxDone, lastOutcome,
                   retWrapped>>
    /\ UNCHANGED notRetryVars

\* lines 84-88: the timer of time.After(backoffDelay) fires while the context is
\* still live; the delay is at least BASE_BACKOFF, so the timer is never ready
\* when the select is entered, and a cancellation that arrives first wakes the
\* select with the ctx.Done() case.
SelectTimer_IgnoresCtx ==
    /\ retryPc = "select"
    /\ retryPc' = "attempt"
    /\ backoffDelay' = calculateNewBackoffDelay(backoffDelay)
    /\ retries' = retries + 1
    /\ UNCHANGED <<maxRetries, calls, ctxDone, lastOutcome, retResp, retErr,
                   retWrapped>>
    /\ UNCHANGED notRetryVars

SelectTimer ==
    /\ retryPc = "select"
    /\ ~ctxDone
    /\ retryPc' = "attempt"
    /\ backoffDelay' = calculateNewBackoffDelay(backoffDelay)
    /\ retries' = retries + 1
    /\ UNCHANGED <<maxRetries, calls, ctxDone, lastOutcome, retResp, retErr,
                   retWrapped>>
    /\ UNCHANGED notRetryVars

\* The caller's context is cancelled or its deadline passes during the call.
CancelCtx ==
    /\ retryPc # "done"
    /\ ~ctxDone
    /\ ctxDone' = TRUE
    /\ UNCHANGED <<maxRetries, retryPc, retries, backoffDelay, calls, lastOutcome,
                   retResp, retErr, retWrapped>>
    /\ UNCHANGED notRetryVars

RetryNext ==
    \/ \E o \in Outcomes : Attempt(o)
    \/ SelectCtxDone
    \/ SelectTimer
    \/ CancelCtx

(***************************************************************************)
(* Metrics scheduler: StartMetricsCollection and CollectMetricsForServer   *)
(* (package app), with the realtime store the pipeline writes and reads    *)
(* (internal/gtfs/realtime_store.go).                                      *)
(***************************************************************************)
Servers == 1..NumServers

\* The target lists the configuration can hold: every list of distinct servers.
TargetLists ==
    {q \in UNION {[1..n -> Servers] : n \in 0..NumServers} :
        \A i, j \in 1..Len(q) : i # j => q[i] # q[j]}

\* The steps of CollectMetricsForServer, in the order of its statements.
AllSteps == <<"ping", "bundle", "agency", "rest", "rt", "vcount", "telemetry", "bounds">>

StepIndex(step) == CHOOSE i \in 1..Len(AllSteps) : AllSteps[i] = step

\* ServerPing returns nothing; every other step returns an error value.
CanFail(step) == step # "ping"

\* Where CollectMetricsForServer goes after `step` returned (ok = its error is nil):
\* the next statement, or "return".  Only the realtime fetch returns early.
AfterStep_ReturnsOnAnyError(step, ok) ==
    IF ~ok \/ step = "bounds" THEN "return" ELSE AllSteps[StepIndex(step) + 1]
AfterStep_NoShortCircuit(step, ok) ==
    IF step = "bounds" THEN "return" ELSE AllSteps[StepIndex(step) + 1]
AfterStep(step, ok) ==
    IF step = "rt" /\ ~ok THEN "return"
    ELSE IF step = "bounds" THEN "return"
    ELSE AllSteps[StepIndex(step) + 1]

NoSnapshot == [server |-> 0]
Snapshot(s) == [server |-> s]

\* RealtimeStore.Get(): the store has no key, so a read made for any server
\* returns the single stored snapshot.
RealtimeGet(s) == rtStore

\* The scheduler before its first tick, with the target list given at startup.
SchedInit ==
    /\ cfgServers \in TargetLists
    /\ schedCtxDone = FALSE
    /\ tickPending = FALSE
    /\ schedPc = "select"
    /\ passServers = <<>>
    /\ idx = 0
    /\ stepPc = "none"
    /\ ran = <<>>
    /\ errs = <<>>
    /\ rtStore = NoSnapshot
    /\ rtFetched = [s \in Servers |-> FALSE]

\* The scheduler not started: the state the other specifications keep.
SchedIdle ==
    /\ cfgServers = <<>>
    /\ schedCtxDone = FALSE
    /\ tickPending = FALSE
    /\ schedPc = "stopped"
    /\ passServers = <<>>
    /\ idx = 0
    /\ stepPc = "none"
    /\ ran = <<>>
    /\ errs = <<>>
    /\ rtStore = NoSnapshot
    /\ rtFetched = [s \in Servers |-> FALSE]

\* The ticker's period elapses: a tick is put in its channel unless one waits there.
Tick ==
    /\ schedPc # "stopped"
    /\ ~tickPending
    /\ tickPending' = TRUE
    /\ UNCHANGED <<cfgServers, schedCtxDone, schedPc, passServers, idx, stepPc, ran,
                   errs, rtStore, rtFetched>>
    /\ UNCHANGED notSchedVars

\* case <-ticker.C: take the tick, copy the target list, enter the range loop.
SelectTick ==
    /\ schedPc = "select"
    /\ tickPending
    /\ tickPending' = FALSE
    /\ passServers' = cfgServers
    /\ ran' = [i \in 1..Len(cfgServers) |-> <<>>]
    /\ errs' = [i \in 1..Len(cfgServers) |-> {}]
    /\ IF Len(cfgServers) = 0
       THEN /\ schedPc' = "select"
            /\ idx' = 0
            /\ stepPc' = "none"
       ELSE /\ schedPc' = "collect"
            /\ idx' = 1
            /\ stepPc' = AllSteps[1]
    /\ UNCHANGED <<cfgServers, schedCtxDone, rtStore, rtFetched>>
    /\ UNCHANGED notSchedVars

\* case <-ctx.Done(): the goroutine returns and its deferred ticker.Stop() runs.
SelectDone ==
    /\ schedPc = "select"
    /\ schedCtxDone
    /\ schedPc' = "stopped"
    /\ UNCHANGED <<cfgServers, schedCtxDone, tickPending, passServers, idx, stepPc,
                   ran, errs, rtStore, rtFetched>>
    /\ UNCHANGED notSchedVars

\* One statement of CollectMetricsForServer for the server at idx: the step at
\* stepPc runs and returns (ok = nil error); a successful realtime fetch stores
\* its snapshot.  When the function returns, the range loop moves to the next
\* server, or back to the select after the last one.
RunStep(ok) ==
    /\ schedPc = "collect"
    /\ ok \/ CanFail(stepPc)
    /\ LET server == passServers[idx]
           next == AfterStep(stepPc, ok)
       IN  /\ ran' = [ran EXCEPT ![idx] = Append(@, stepPc)]
           /\ errs' = [errs EXCEPT ![idx] =
                          IF ok THEN @
                          ELSE @ \cup {IF stepPc = "rt" THEN "rt" ELSE "other"}]
           /\ IF stepPc = "rt" /\ ok
              THEN /\ rtStore' = Snapshot(server)
                   /\ rtFetched' = [rtFetched EXCEPT ![server] = TRUE]
              ELSE UNCHANGED <<rtStore, rtFetched>>
           /\ IF next # "return"
              THEN /\ stepPc' = next
                   /\ UNCHANGED <<idx, schedPc>>
              ELSE IF idx < Len(passServers)
              THEN /\ idx' = idx + 1
                   /\ stepPc' = AllSteps[1]
                   /\ UNCHANGED schedPc
              ELSE /\ idx' = 0
                   /\ stepPc' = "none"
                   /\ schedPc' = "select"
    /\ UNCHANGED <<cfgServers, schedCtxDone, tickPending, passServers>>
    /\ UNCHANGED notSchedVars

\* Config.UpdateConfig(newServers), called by the config refresh loop.
UpdateConfig(newServers) ==
    /\ schedPc # "stopped"
    /\ newServers # cfgServers
    /\ cfgServers' = newServers
    /\ UNCHANGED <<schedCtxDone, tickPending, schedPc, passServers, idx, stepPc, ran,
                   errs, rtStore, rtFetched>>
    /\ UNCHANGED notSchedVars

\* The application's context is cancelled (shutdown).
CancelSched ==
    /\ ~schedCtxDone
    /\ schedPc # "stopped"
    /\ schedCtxDone' = TRUE
    /\ UNCHANGED <<cfgServers, tickPending, schedPc, passServers, idx, stepPc, ran,
                   errs, rtStore, rtFetched>>
    /\ UNCHANGED notSchedVars

SchedNext ==
    \/ Tick
    \/ SelectTick
    \/ SelectDone
    \/ \E ok \in BOOLEAN : RunStep(ok)
    \/ \E l \in TargetLists : UpdateConfig(l)
    \/ CancelSched

(***************************************************************************)
(* Snapshot stores: StaticStore (internal/gtfs/static_store.go),           *)
(* BoundingBoxStore (internal/geo/geo_cluster.go), VehicleLastSeen         *)
(* (internal/metrics/vehicle_store.go) and RealtimeStore                   *)
(* (internal/gtfs/realtime_store.go), each behind its own sync.RWMutex.    *)
(* One store is modelled at a time; storeKind says which.                  *)
(***************************************************************************)
StoreKinds == {"static", "bbox", "telemetry", "realtime"}

Goroutines == 1..NumGoroutines

StoreServers == {1, 2}
Vehicles == {"a", "b"}

\* Stored values: a snapshot or bounding box is identified by a number; for
\* the telemetry store the number is the Time of the LastSeen.
StoreVals == 1..NumVals

\* The zero value Get returns with found = false (nil for the pointer stores).
Zero == 0
\* A map entry in the middle of an assignment that has not completed.
Torn == -1

\* The keys of a store: a server id; (server id, vehicle id) for the telemetry
\* store; the realtime store has one slot.
KeysOf(kind) ==
    CASE kind = "telemetry" -> StoreServers \X Vehicles
      [] kind = "realtime" -> {0}
      [] OTHER -> StoreServers

Put(f, k, v) == [x \in DOMAIN f \cup {k} |-> IF x = k THEN v ELSE f[x]]
Restrict(f, K) == [x \in DOMAIN f \cap K |-> f[x]]

\* s.data[serverID] = newData / s.store[serverID] = bbox / s.data = newData
StaticPut(data, serverID, v) == Put(data, serverID, v)
BoundingBoxPut(data, serverID, v) == Put(data, serverID, v)
RealtimePut(data, slot, v) == Put(data, slot, v)

\* VehicleLastSeen.Set: create the server's inner map when it is missing, then
\* assign the vehicle's entry.
TelemetryPut_FreshInnerMap(data, key, v) ==
    Put(data, key[1], Put(<<>>, key[2], v))
TelemetryPut(data, key, v) ==
    LET inner == IF key[1] \in DOMAIN data THEN data[key[1]] ELSE <<>>
    IN  Put(data, key[1], Put(inner, key[2], v))

StorePut(kind, data, key, v) ==
    CASE kind = "static" -> StaticPut(data, key, v)
      [] kind = "bbox" -> BoundingBoxPut(data, key, v)
      [] kind = "realtime" -> RealtimePut(data, key, v)
      [] kind = "telemetry" -> TelemetryPut(data, key, v)

\* "data, exists := s.data[serverID]; return data, exists" and its variants:
\* <<value, found>>.  RealtimeStore.Get returns the pointer alone, nil if unset.
FlatGet(data, key) ==
    IF key \in DOMAIN data THEN <<data[key], TRUE>> ELSE <<Zero, FALSE>>

TelemetryGet(data, key) ==
    IF key[1] \in DOMAIN data
    THEN FlatGet(data[key[1]], key[2])
    ELSE <<Zero, FALSE>>

StoreGet(kind, data, key) ==
    IF kind = "telemetry" THEN TelemetryGet(data, key) ELSE FlatGet(data, key)

\* VehicleLastSeen.clear: delete the entries last seen more than threshold
\* before now, then the inner maps left empty.
TelemetryClear(data, now, threshold) ==
    LET kept(sid) == {vid \in DOMAIN data[sid] :
                        ~(data[sid][vid] < now /\ now - data[sid][vid] > threshold)}
        live == {sid \in DOMAIN data : kept(sid) # {}}
    IN  [sid \in live |-> Restrict(data[sid], kept(sid))]

\* sync.RWMutex: Lock waits until no goroutine holds the mutex; RLock waits
\* until no goroutine holds it for writing.
CanLock == lockWriter = 0 /\ lockReaders = {}
CanRLock_IgnoresWriter == TRUE
CanRLock == lockWriter = 0

Idle == [pc |-> "idle", key |-> 0, val |-> Zero, ret |-> <<Zero, FALSE>>]

StoreInit ==
    /\ storeKind \in StoreKinds
    /\ storeData = <<>>
    /\ lockWriter = 0
    /\ lockReaders = {}
    /\ goroutine = [g \in Goroutines |-> Idle]
    /\ lastSet = <<>>

\* No store in use: the state the other specifications keep.
StoreIdle ==
    /\ storeKind = "static"
    /\ storeData = <<>>
    /\ lockWriter = 0
    /\ lockReaders = {}
    /\ goroutine = [g \in Goroutines |-> Idle]
    /\ lastSet = <<>>

\* Set(key, v) is called and takes the mutex: s.mu.Lock().
SetLock(g, key, v) ==
    /\ goroutine[g].pc = "idle"
    /\ key \in KeysOf(storeKind)
    /\ CanLock
    /\ lockWriter' = g
    /\ goroutine' = [goroutine EXCEPT ![g] =
                        [pc |-> "set_locked", key |-> key, val |-> v,
                         ret |-> <<Zero, FALSE>>]]
    /\ UNCHANGED <<storeKind, storeData, lockReaders, lastSet>>
    /\ UNCHANGED notStoreVars

\* The assignment to the map entry begins: until it completes the entry is torn.
SetBegin(g) ==
    /\ goroutine[g].pc = "set_locked"
    /\ storeData' = StorePut(storeKind, storeData, goroutine[g].key, Torn)
    /\ goroutine' = [goroutine EXCEPT ![g].pc = "set_writing"]
    /\ UNCHANGED <<storeKind, lockWriter, lockReaders, lastSet>>
    /\ UNCHANGED notStoreVars

\* The assignment completes and Set returns: the deferred s.mu.Unlock() runs.
SetEnd(g) ==
    /\ goroutine[g].pc = "set_writing"
    /\ storeData' = StorePut(storeKind, storeData, goroutine[g].key, goroutine[g].val)
    /\ lastSet' = Put(lastSet, goroutine[g].key, goroutine[g].val)
    /\ lockWriter' = IF lockWriter = g THEN 0 ELSE lockWriter
    /\ goroutine' = [goroutine EXCEPT ![g] = Idle]
    /\ UNCHANGED <<storeKind, lockReaders>>
    /\ UNCHANGED notStoreVars

\* Get(key) is called and takes the mutex for reading: s.mu.RLock().
GetRLock(g, key) ==
    /\ goroutine[g].pc = "idle"
    /\ key \in KeysOf(storeKind)
    /\ CanRLock
    /\ lockReaders' = lockReaders \cup {g}
    /\ goroutine' = [goroutine EXCEPT ![g] =
                        [pc |-> "get_locked", key |-> key, val |-> Zero,
                         ret |-> <<Zero, FALSE>>]]
    /\ UNCHANGED <<storeKind, storeData, lockWriter, lastSet>>
    /\ UNCHANGED notStoreVars

\* Get reads the entry; the value read is what it will return.
GetRead(g) ==
    /\ goroutine[g].pc = "get_locked"
    /\ goroutine' = [goroutine EXCEPT
                        ![g].pc = "get_done",
                        ![g].ret = StoreGet(storeKind, storeData, goroutine[g].key)]
    /\ UNCHANGED <<storeKind, storeData, lockWriter, lockReaders, lastSet>>
    /\ UNCHANGED notStoreVars

\* Get returns: the deferred s.mu.RUnlock() runs.
GetReturn(g) ==
    /\ goroutine[g].pc = "get_done"
    /\ lockReaders' = lockReaders \ {g}
    /\ goroutine' = [goroutine EXCEPT ![g] = Idle]
    /\ UNCHANGED <<storeKind, storeData, lockWriter, lastSet>>
    /\ UNCHANGED notStoreVars

\* VehicleLastSeen.clear(threshold), run by the eviction routine at time now:
\* the whole sweep runs with the mutex held for writing.
Clear(now, threshold) ==
    /\ storeKind = "telemetry"
    /\ CanLock
    /\ storeData' = TelemetryClear(storeData, now, threshold)
    /\ storeData' # storeData
    /\ lastSet' = Restrict(lastSet, {k \in DOMAIN lastSet :
                                        TelemetryGet(storeData', k)[2]})
    /\ UNCHANGED <<storeKind, lockWriter, lockReaders, goroutine>>
    /\ UNCHANGED notStoreVars

StoreNext ==
    \/ \E g \in Goroutines, k \in KeysOf(storeKind), v \in StoreVals : SetLock(g, k, v)
    \/ \E g \in Goroutines : SetBegin(g)
    \/ \E g \in Goroutines : SetEnd(g)
    \/ \E g \in Goroutines, k \in KeysOf(storeKind) : GetRLock(g, k)
    \/ \E g \in Goroutines : GetRead(g)
    \/ \E g \in Goroutines : GetReturn(g)
    \/ \E now \in 2..(NumVals + 1), threshold \in {0, 1} : Clear(now, threshold)

(***************************************************************************)
(* Cross-cycle throttle: BackoffStore, internal/config/backoff_time_store.go *)
(***************************************************************************)
BackoffIds == {1, 2}

\* JITTER_FACTOR = 0.5, as numerator and denominator.
JITTER_FACTOR == <<1, 2>>

\* The values rand.Float64() can return: fractions in [0, 1).
RandFloats == {<<k, RandDenom>> : k \in 0..(RandDenom - 1)}

\* The zero time.Time that NextRetryAt returns with false.
ZeroTime == -1

\* calculateNextRetryAt(backoff), with r the value of rand.Float64() and now the
\* value of time.Now(): the conversion to time.Duration truncates the jitter.
calculateNextRetryAt_NoClamp(backoff, r, now) ==
    LET jitter == (r[1] * backoff * JITTER_FACTOR[1]) \div (r[2] * JITTER_FACTOR[2])
    IN  now + backoff + jitter
calculateNextRetryAt(backoff, r, now) ==
    LET jitter == (r[1] * backoff * JITTER_FACTOR[1]) \div (r[2] * JITTER_FACTOR[2])
        withJitter == backoff + jitter
    IN  now + (IF withJitter > MAX_BACKOFF THEN MAX_BACKOFF ELSE withJitter)

\* The entry UpdateBackoff stores for an id: the doubled delay of the entry it
\* finds, or the base delay when it finds none.
NewBackoffData_DoublesOnCreate(store, serverID, r, now) ==
    LET delay == IF serverID \in DOMAIN store
                 THEN calculateNewBackoffDelay(store[serverID].BackoffDelay)
                 ELSE calculateNewBackoffDelay(BASE_BACKOFF)
    IN  [BackoffDelay |-> delay, NextRetryAt |-> calculateNextRetryAt(delay, r, now)]
NewBackoffData(store, serverID, r, now) ==
    LET delay == IF serverID \in DOMAIN store
                 THEN calculateNewBackoffDelay(store[serverID].BackoffDelay)
                 ELSE BASE_BACKOFF
    IN  [BackoffDelay |-> delay, NextRetryAt |-> calculateNextRetryAt(delay, r, now)]

\* BackoffStore.NextRetryAt(serverID): <<time, found>>.
NextRetryAt(serverID) ==
    IF serverID \in DOMAIN backoffs
    THEN <<backoffs[serverID].NextRetryAt, TRUE>>
    ELSE <<ZeroTime, FALSE>>

\* NewBackoffStore(): an empty map.
BackoffInit ==
    /\ backoffs = <<>>
    /\ wallClock \in 0..MaxClock
    /\ consecutive = [id \in BackoffIds |-> 0]
    /\ wasReset = [id \in BackoffIds |-> FALSE]

\* No BackoffStore in use: the state the other specifications keep.
BackoffIdle ==
    /\ backoffs = <<>>
    /\ wallClock = 0
    /\ consecutive = [id \in BackoffIds |-> 0]
    /\ wasReset = [id \in BackoffIds |-> FALSE]

\* BackoffStore.UpdateBackoff(serverID); r is what rand.Float64() returns.
UpdateBackoff(serverID, r) ==
    /\ consecutive[serverID] < MaxUpdates
    /\ backoffs' = Put(backoffs, serverID,
                       NewBackoffData(backoffs, serverID, r, wallClock))
    /\ consecutive' = [consecutive EXCEPT ![serverID] = @ + 1]
    /\ UNCHANGED <<wallClock, wasReset>>
    /\ UNCHANGED notBackoffVars

\* BackoffStore.ResetBackoff(serverID): delete(s.backoffs, serverID).
ResetBackoff_ResetsToFloor(serverID) ==
    /\ backoffs' = IF serverID \in DOMAIN backoffs
                   THEN Put(backoffs, serverID,
                            [BackoffDelay |-> BASE_BACKOFF, NextRetryAt |-> wallClock])
                   ELSE backoffs
    /\ consecutive' = [consecutive EXCEPT ![serverID] = 0]
    /\ wasReset' = [wasReset EXCEPT ![serverID] = @ \/ serverID \in DOMAIN backoffs]
    /\ UNCHANGED wallClock
    /\ UNCHANGED notBackoffVars
ResetBackoff(serverID) ==
    /\ backoffs' = Restrict(backoffs, DOMAIN backoffs \ {serverID})
    /\ consecutive' = [consecutive EXCEPT ![serverID] = 0]
    /\ wasReset' = [wasReset EXCEPT ![serverID] = @ \/ serverID \in DOMAIN backoffs]
    /\ UNCHANGED wallClock
    /\ UNCHANGED notBackoffVars

\* Time passes: later calls of time.Now() return a later time.
AdvanceClock ==
    /\ wallClock < MaxClock
    /\ wallClock' = wallClock + 1
    /\ UNCHANGED <<backoffs, consecutive, wasReset>>
    /\ UNCHANGED notBackoffVars

BackoffNext ==
    \/ \E id \in BackoffIds, r \in RandFloats : UpdateBackoff(id, r)
    \/ \E id \in BackoffIds : ResetBackoff(id)
    \/ AdvanceClock

(***************************************************************************)
(* Telemetry: trackVehicleTelemetry (internal/metrics/vehicle_metrics.go)  *)
(* and VehicleLastSeen with its eviction routine                           *)
(* (internal/metrics/vehicle_store.go).                                    *)
(***************************************************************************)
TeleServers == {1, 2}

\* vehicle.ID == nil, and the empty id.
NilId == "<nil>"
EmptyId == ""
\* vehicle.Position (or its Latitude or Longitude) == nil.
NoPosition == -1
\* vehicle.Timestamp == nil.
NoTimestamp == -1
\* vehicle.Position.Speed == nil.
NoSpeed == -1
\* realtimeStore.Get() == nil.
NoFeed == -1
\* No Set call on a gauge.
NotPublished == <<>>
\* TrackedVehiclesGauge before its first Set for a server.
Unset == -1

\* Positions are points on one meridian, in metres from a reference point.
Points == {0, 1}
Times == 0..MaxTime
Thresholds == {0, 1}

\* The vehicles a feed can carry: id, position, timestamp, self-reported speed.
FeedVehicles ==
    [id : {NilId, EmptyId} \cup Vehicles,
     pos : {NoPosition} \cup Points,
     ts : {NoTimestamp} \cup Times,
     speed : {NoSpeed, 0, 2}]

\* The vehicles drawn where eviction is studied: an id and a position, no
\* timestamp (the time of the pass is recorded) and no speed.
PlainFeedVehicles ==
    {v \in FeedVehicles :
        /\ v.id \in Vehicles
        /\ v.pos = 0
        /\ v.ts = NoTimestamp
        /\ v.speed = NoSpeed}

\* The vehicles drawn where the pass itself is studied: every kind of id,
\* position, timestamp and speed, with one vehicle id.
OneIdFeedVehicles == {v \in FeedVehicles : v.id # "b"}

NoIter == [done |-> FALSE]
NoSweep == [now |-> -1, threshold |-> -1]

\* geo.HaversineDistance between two points of the meridian: the length of the
\* arc between them.
HaversineDistance(p, q) == IF p >= q THEN p - q ELSE q - p

\* VehicleLastSeen.Get(serverID, vehicleID): <<LastSeen, found>>.
VehicleLastSeenGet(data, serverID, vehicleID) ==
    IF serverID \in DOMAIN data /\ vehicleID \in DOMAIN data[serverID]
    THEN <<data[serverID][vehicleID], TRUE>>
    ELSE <<[Time |-> 0, Pos |-> 0], FALSE>>

\* a Set that keeps the record it holds unless the new one is later
VehicleLastSeenSet_KeepsLatest(data, serverID, vehicleID, lastSeen) ==
    LET inner == IF serverID \in DOMAIN data THEN data[serverID] ELSE <<>>
    IN  IF vehicleID \in DOMAIN inner /\ inner[vehicleID].Time >= lastSeen.Time
        THEN data
        ELSE Put(data, serverID, Put(inner, vehicleID, lastSeen))

\* VehicleLastSeen.Set(serverID, vehicleID, lastSeen).
VehicleLastSeenSet(data, serverID, vehicleID, lastSeen) ==
    LET inner == IF serverID \in DOMAIN data THEN data[serverID] ELSE <<>>
    IN  Put(data, serverID, Put(inner, vehicleID, lastSeen))

\* VehicleLastSeen.Count(serverID): len of the inner map, 0 for a missing one.
VehicleLastSeenCount(data, serverID) ==
    IF serverID \in DOMAIN data THEN Cardinality(DOMAIN data[serverID]) ELSE 0

\* line 121: lastSeen.Time.Before(now) && now.Sub(lastSeen.Time) > threshold.
IsStale_AtThreshold(lastSeen, now, threshold) ==
    lastSeen.Time < now /\ now - lastSeen.Time >= threshold
IsStale(lastSeen, now, threshold) ==
    lastSeen.Time < now /\ now - lastSeen.Time > threshold

\* VehicleLastSeen.clear(threshold) run at time now: delete the stale entries,
\* then the inner maps left empty.
VehicleLastSeenClear(data, now, threshold) ==
    LET kept(sid) == {vid \in DOMAIN data[sid] : ~IsStale(data[sid][vid], now, threshold)}
        live == {sid \in DOMAIN data : kept(sid) # {}}
    IN  [sid \in live |-> Restrict(data[sid], kept(sid))]

\* lines 215-221: the speed the iteration publishes, as <<metres, seconds>>.
ComputedSpeed_NoPositiveCheck(prev, ok, seenAt, pos) ==
    IF ok
    THEN <<HaversineDistance(prev.Pos, pos), seenAt - prev.Time>>
    ELSE NotPublished
ComputedSpeed(prev, ok, seenAt, pos) ==
    IF ok /\ seenAt - prev.Time > 0
    THEN <<HaversineDistance(prev.Pos, pos), seenAt - prev.Time>>
    ELSE NotPublished

\* lines 224-229: the discrepancy ratio |computed - reported| / reported the
\* iteration publishes, as <<numerator, denominator>>.
DiscrepancyRatio(computedSpeed, reportedSpeed) ==
    IF computedSpeed # NotPublished /\ reportedSpeed # NoSpeed /\ reportedSpeed > 0
    THEN LET diff == computedSpeed[1] - reportedSpeed * computedSpeed[2]
         IN  <<IF diff >= 0 THEN diff ELSE -diff, reportedSpeed * computedSpeed[2]>>
    ELSE NotPublished

\* NewVehicleLastSeen(), no pass running, no metric series yet.
TeleInit ==
    /\ vStore = <<>>
    /\ teleClock = 0
    /\ telePc = "idle"
    /\ teleServer = 0
    /\ teleNow = 0
    /\ teleLeft = 0
    /\ teleRet = "none"
    /\ trackedGauge = [s \in TeleServers |-> Unset]
    /\ exposed = {}
    /\ feedIds = [s \in TeleServers |-> {}]
    /\ lastIter = NoIter
    /\ lastSweep = NoSweep

\* The telemetry subsystem not started: the state the other specifications keep.
TeleIdle == TeleInit

\* trackVehicleTelemetry(server) up to its range loop (lines 171-190).  feed is
\* what realtimeStore.Get() returns: NoFeed, or the number of its vehicles.
TelemetryBegin(server, feed) ==
    /\ telePc = "idle"
    /\ lastIter' = NoIter
    /\ lastSweep' = NoSweep
    /\ IF feed = NoFeed
       THEN /\ teleRet' = "err"
            /\ UNCHANGED <<telePc, teleServer, teleNow, teleLeft, trackedGauge, feedIds>>
       ELSE IF feed = 0
       THEN /\ teleRet' = "nil"
            /\ trackedGauge' = [trackedGauge EXCEPT ![server] = 0]
            /\ feedIds' = [feedIds EXCEPT ![server] = {}]
            /\ UNCHANGED <<telePc, teleServer, teleNow, teleLeft>>
       ELSE /\ telePc' = "loop"
            /\ teleServer' = server
            /\ teleNow' = teleClock
            /\ teleLeft' = feed
            /\ teleRet' = "none"
            /\ feedIds' = [feedIds EXCEPT ![server] = {}]
            /\ UNCHANGED trackedGauge
    /\ UNCHANGED <<vStore, teleClock, exposed>>
    /\ UNCHANGED notTeleVars

\* One iteration of the range loop (lines 192-240) for the feed's next vehicle.
TelemetryVehicle(vehicle) ==
    /\ telePc = "loop"
    /\ teleLeft > 0
    /\ teleLeft' = teleLeft - 1
    /\ lastSweep' = NoSweep
    /\ feedIds' = IF vehicle.id \in Vehicles
                  THEN [feedIds EXCEPT ![teleServer] = @ \cup {vehicle.id}]
                  ELSE feedIds
    /\ IF vehicle.id \in {NilId, EmptyId} \/ vehicle.pos = NoPosition
       THEN /\ lastIter' = [done |-> TRUE, vehicle |-> vehicle, skipped |-> TRUE,
                            ok |-> FALSE, speed |-> NotPublished,
                            ratio |-> NotPublished]
            /\ UNCHANGED <<vStore, exposed>>
       ELSE LET seenAt == IF vehicle.ts # NoTimestamp THEN vehicle.ts ELSE teleNow
                got == VehicleLastSeenGet(vStore, teleServer, vehicle.id)
                speed == ComputedSpeed(got[1], got[2], seenAt, vehicle.pos)
            IN  /\ exposed' = exposed \cup {<<vehicle.id, teleServer>>}
                /\ lastIter' = [done |-> TRUE, vehicle |-> vehicle, skipped |-> FALSE,
                                ok |-> got[2], speed |-> speed,
                                ratio |-> DiscrepancyRatio(speed, vehicle.speed)]
                /\ vStore' = VehicleLastSeenSet(vStore, teleServer, vehicle.id,
                                                [Time |-> seenAt, Pos |-> vehicle.pos])
    /\ UNCHANGED <<teleClock, telePc, teleServer, teleNow, teleRet, trackedGauge>>
    /\ UNCHANGED notTeleVars

\* After the loop (lines 242-244): set the tracked-vehicles gauge, return nil.
TelemetryEnd ==
    /\ telePc = "loop"
    /\ teleLeft = 0
    /\ trackedGauge' = [trackedGauge EXCEPT
                           ![teleServer] = VehicleLastSeenCount(vStore, teleServer)]
    /\ telePc' = "idle"
    /\ teleServer' = 0
    /\ teleNow' = 0
    /\ teleRet' = "nil"
    /\ lastIter' = NoIter
    /\ lastSweep' = NoSweep
    /\ UNCHANGED <<vStore, teleClock, teleLeft, exposed, feedIds>>
    /\ UNCHANGED notTeleVars

\* A tick of ClearRoutine: clear(threshold), which reads time.Now() and sweeps
\* the store with the mutex held; it touches no metric.
Sweep(threshold) ==
    /\ vStore' = VehicleLastSeenClear(vStore, teleClock, threshold)
    /\ lastSweep' = [now |-> teleClock, threshold |-> threshold]
    /\ lastIter' = NoIter
    /\ UNCHANGED <<teleClock, telePc, teleServer, teleNow, teleLeft, teleRet,
                   trackedGauge, exposed, feedIds>>
    /\ UNCHANGED notTeleVars

\* Time passes.
TeleAdvanceClock ==
    /\ teleClock < MaxTime
    /\ teleClock' = teleClock + 1
    /\ lastIter' = NoIter
    /\ lastSweep' = NoSweep
    /\ UNCHANGED <<vStore, telePc, teleServer, teleNow, teleLeft, teleRet,
                   trackedGauge, exposed, feedIds>>
    /\ UNCHANGED notTeleVars

\* Eviction and exposure: passes of both servers over plain vehicles.
EvictNext ==
    \/ \E s \in TeleServers, feed \in {NoFeed} \cup (0..MaxFeedLen) : TelemetryBegin(s, feed)
    \/ \E v \in PlainFeedVehicles : TelemetryVehicle(v)
    \/ TelemetryEnd
    \/ \E threshold \in Thresholds : Sweep(threshold)
    \/ TeleAdvanceClock

\* The pass itself: one server, every kind of feed vehicle.
TelemetryNext ==
    \/ \E feed \in {NoFeed} \cup (0..MaxFeedLen) : TelemetryBegin(1, feed)
    \/ \E v \in OneIdFeedVehicles : TelemetryVehicle(v)
    \/ TelemetryEnd
    \/ \E threshold \in Thresholds : Sweep(threshold)
    \/ TeleAdvanceClock

(***************************************************************************)
(* Validity and bounds of vehicle positions:                               *)
(* trackInvalidVehiclesAndStoppedOutOfBounds                               *)
(* (internal/metrics/vehicle_metrics.go), geo.IsValidLatLon and            *)
(* BoundingBox.Contains (internal/geo/geo_cluster.go).                     *)
(***************************************************************************)
VehicleStatusStoppedAtStop == 1

\* v.Position == nil; Latitude or Longitude == nil; v.CurrentStatus == nil.
NilPosition == "nil"
NilCoord == 1000
NoStatus == -1

Lats == {0, 10, 91}
Lons == {0, 20}

\* The vehicles a feed can carry, as far as this pass reads them.
BoundsVehicles ==
    [position : {NilPosition, "set"},
     lat : {NilCoord} \cup Lats,
     lon : {NilCoord} \cup Lons,
     status : {NoStatus, 1, 2}]
    \ {v \in [position : {NilPosition}, lat : {NilCoord} \cup Lats,
              lon : {NilCoord} \cup Lons, status : {NoStatus, 1, 2}] :
          v.lat # NilCoord \/ v.lon # NilCoord}

\* The bounding boxes a server can have: one around (10, 20), and the whole
\* range of coordinates.
BoundingBoxes ==
    {[MinLat |-> 5, MaxLat |-> 15, MinLon |-> 15, MaxLon |-> 25],
     [MinLat |-> -90, MaxLat |-> 90, MinLon |-> -180, MaxLon |-> 180]}

\* A gauge value left by an earlier pass.
StaleGauge == 7

\* A float64 that is not a number: every comparison with it is false, also
\* ==.  A feed's position is a pair of protobuf floats, which can carry it.
NaN == 5000
FloatEq(a, b) == a # NaN /\ b # NaN /\ a = b
FloatLt(a, b) == a # NaN /\ b # NaN /\ a < b
FloatGt(a, b) == a # NaN /\ b # NaN /\ a > b
FloatLe(a, b) == a # NaN /\ b # NaN /\ a <= b
FloatGe(a, b) == a # NaN /\ b # NaN /\ a >= b

\* geo.IsValidLatLon(lat, lon).
IsValidLatLon(lat, lon) ==
    IF FloatEq(lat, 0) /\ FloatEq(lon, 0) THEN FALSE
    ELSE IF FloatLt(lat, -90) \/ FloatGt(lat, 90) \/ FloatLt(lon, -180) \/ FloatGt(lon, 180)
         THEN FALSE
    ELSE TRUE

\* BoundingBox.Contains(lat, lon).
Contains_OpenEdges(b, lat, lon) ==
    FloatGt(lat, b.MinLat) /\ FloatLt(lat, b.MaxLat) /\ FloatGt(lon, b.MinLon) /\ FloatLt(lon, b.MaxLon)

Contains(b, lat, lon) ==
    FloatGe(lat, b.MinLat) /\ FloatLe(lat, b.MaxLat) /\ FloatGe(lon, b.MinLon) /\ FloatLe(lon, b.MaxLon)

\* BoundingBoxStore.Get(serverID): <<BoundingBox, found>>.
BoundingBoxGet(store, serverID) ==
    IF serverID \in DOMAIN store
    THEN <<store[serverID], TRUE>>
    ELSE <<[MinLat |-> 0, MaxLat |-> 0, MinLon |-> 0, MaxLon |-> 0], FALSE>>

\* line 312: v.CurrentStatus != nil && *v.CurrentStatus == VehicleStatusStoppedAtStop.
IsStoppedAtStop_AnyStatus(status) == TRUE
IsStoppedAtStop(status) == status # NoStatus /\ status = VehicleStatusStoppedAtStop

\* A server's bounding box is stored or not; earlier passes may have set the
\* gauges.
BoundsInit ==
    /\ bbStore \in {<<>>} \cup {Put(<<>>, sid, b) : sid \in TeleServers, b \in BoundingBoxes}
    /\ boundsPc = "idle"
    /\ boundsServer = 0
    /\ boundsFeed = <<>>
    /\ boundsLeft = 0
    /\ invalidCount = 0
    /\ outOfBoundsCount = 0
    /\ \E g \in {Unset, StaleGauge} :
          /\ invalidGauge = [s \in TeleServers |-> g]
          /\ outOfBoundsGauge = [s \in TeleServers |-> g]
    /\ boundsRet = "none"

\* No pass called: the state the other specifications keep.
BoundsIdle ==
    /\ bbStore = <<>>
    /\ boundsPc = "idle"
    /\ boundsServer = 0
    /\ boundsFeed = <<>>
    /\ boundsLeft = 0
    /\ invalidCount = 0
    /\ outOfBoundsCount = 0
    /\ invalidGauge = [s \in TeleServers |-> Unset]
    /\ outOfBoundsGauge = [s \in TeleServers |-> Unset]
    /\ boundsRet = "none"

\* The call up to its loop (lines 277-295).  feed is what realtimeStore.Get()
\* returns: NoFeed, or the number of its vehicles.
BoundsBegin(server, feed) ==
    /\ boundsPc = "idle"
    /\ boundsServer' = server
    /\ IF feed = NoFeed \/ ~BoundingBoxGet(bbStore, server)[2]
       THEN /\ boundsPc' = "done"
            /\ boundsRet' = "err"
            /\ UNCHANGED boundsLeft
       ELSE /\ boundsPc' = "loop"
            /\ boundsLeft' = feed
            /\ UNCHANGED boundsRet
    /\ UNCHANGED <<bbStore, boundsFeed, invalidCount, outOfBoundsCount, invalidGauge,
                   outOfBoundsGauge>>
    /\ UNCHANGED notBoundsVars

\* One iteration of the loop (lines 297-317) for the feed's next vehicle v.
BoundsVehicle(v) ==
    /\ boundsPc = "loop"
    /\ boundsLeft > 0
    /\ boundsLeft' = boundsLeft - 1
    /\ boundsFeed' = Append(boundsFeed, v)
    /\ IF v.position = NilPosition \/ v.lat = NilCoord \/ v.lon = NilCoord
       THEN /\ invalidCount' = invalidCount + 1
            /\ UNCHANGED outOfBoundsCount
       ELSE IF ~IsValidLatLon(v.lat, v.lon)
       THEN /\ invalidCount' = invalidCount + 1
            /\ UNCHANGED outOfBoundsCount
       ELSE IF /\ IsStoppedAtStop(v.status)
               /\ ~Contains(BoundingBoxGet(bbStore, boundsServer)[1], v.lat, v.lon)
       THEN /\ outOfBoundsCount' = outOfBoundsCount + 1
            /\ UNCHANGED invalidCount
       ELSE UNCHANGED <<invalidCount, outOfBoundsCount>>
    /\ UNCHANGED <<bbStore, boundsPc, boundsServer, invalidGauge, outOfBoundsGauge,
                   boundsRet>>
    /\ UNCHANGED notBoundsVars

\* After the loop (lines 319-323): set both gauges, return nil.
BoundsEnd ==
    /\ boundsPc = "loop"
    /\ boundsLeft = 0
    /\ invalidGauge' = [invalidGauge EXCEPT ![boundsServer] = invalidCount]
    /\ outOfBoundsGauge' = [outOfBoundsGauge EXCEPT ![boundsServer] = outOfBoundsCount]
    /\ boundsPc' = "done"
    /\ boundsRet' = "nil"
    /\ UNCHANGED <<bbStore, boundsServer, boundsFeed, boundsLeft, invalidCount,
                   outOfBoundsCount>>
    /\ UNCHANGED notBoundsVars

BoundsNext ==
    \/ \E s \in TeleServers, feed \in {NoFeed} \cup (0..MaxFeedLen) : BoundsBegin(s, feed)
    \/ \E v \in BoundsVehicles : BoundsVehicle(v)
    \/ BoundsEnd

(***************************************************************************)
(* Cached exposition: CachedPromHandler                                    *)
(* (internal/middleware/cached_prom_handler.go, lines 27-134), created by  *)
(* Routes with prometheus.DefaultGatherer (internal/app/routes.go).        *)
(***************************************************************************)
\* c.cache before the first refresh: a nil slice.
NilCache == <<>>
\* The slice in the middle of the assignment c.cache = buf.Bytes().
TornCache == <<"torn">>

\* What c.h.ServeHTTP writes: the text exposition of the metrics gathered, which
\* for the default gatherer is never empty.
Serialize(version) == <<"metrics", version>>

\* line 102: len(c.cache) == 0.
CacheIsEmpty_Always(c) == TRUE
CacheIsEmpty(c) == Len(c) = 0

\* c.mu: Lock waits for the readers to leave; a waiting or holding writer keeps
\* new readers out (sync.RWMutex).
CacheCanLock == ~cacheWriter /\ cacheReaders = {}
CacheCanRLock_IgnoresWriter == TRUE
CacheCanRLock == ~cacheWriter /\ refreshPc # "lock"

NoRequest == [pc |-> "idle", resp |-> <<>>, serialized |-> FALSE, served |-> FALSE]

\* NewCachedPromHandler: cache nil, the refresh loop started on its ticker.
CacheInit ==
    /\ cache = NilCache
    /\ cacheWriter = FALSE
    /\ cacheReaders = {}
    /\ refreshPc = "select"
    /\ refreshBuf = <<>>
    /\ cacheTick = FALSE
    /\ cacheCtxDone = FALSE
    /\ metricsVersion = 0
    /\ request = [g \in Goroutines |-> NoRequest]

\* No handler created: the state the other specifications keep.
CacheIdle ==
    /\ cache = NilCache
    /\ cacheWriter = FALSE
    /\ cacheReaders = {}
    /\ refreshPc = "stopped"
    /\ refreshBuf = <<>>
    /\ cacheTick = FALSE
    /\ cacheCtxDone = FALSE
    /\ metricsVersion = 0
    /\ request = [g \in Goroutines |-> NoRequest]

\* The ticker's period (ttl) elapses: a tick is put in its channel unless one
\* waits there.
CacheTickFire ==
    /\ refreshPc # "stopped"
    /\ ~cacheTick
    /\ cacheTick' = TRUE
    /\ UNCHANGED <<cache, cacheWriter, cacheReaders, refreshPc, refreshBuf,
                   cacheCtxDone, metricsVersion, request>>
    /\ UNCHANGED notCacheVars

\* refreshLoop, case <-ticker.C (line 71).
RefreshTick ==
    /\ refreshPc = "select"
    /\ cacheTick
    /\ cacheTick' = FALSE
    /\ refreshPc' = "gather"
    /\ UNCHANGED <<cache, cacheWriter, cacheReaders, refreshBuf, cacheCtxDone,
                   metricsVersion, request>>
    /\ UNCHANGED notCacheVars

\* refreshLoop, case <-ctx.Done() (lines 69-70): return; ticker.Stop() runs.
RefreshDone ==
    /\ refreshPc = "select"
    /\ cacheCtxDone
    /\ refreshPc' = "stopped"
    /\ UNCHANGED <<cache, cacheWriter, cacheReaders, refreshBuf, cacheTick,
                   cacheCtxDone, metricsVersion, request>>
    /\ UNCHANGED notCacheVars

\* lines 72-74: serialize the metrics into a fresh buffer, outside the lock.
RefreshGather ==
    /\ refreshPc = "gather"
    /\ refreshBuf' = Serialize(metricsVersion)
    /\ refreshPc' = "lock"
    /\ UNCHANGED <<cache, cacheWriter, cacheReaders, cacheTick, cacheCtxDone,
                   metricsVersion, request>>
    /\ UNCHANGED notCacheVars

\* line 76 and the start of line 77: c.mu.Lock(), the assignment begins.
RefreshLock ==
    /\ refreshPc = "lock"
    /\ CacheCanLock
    /\ cacheWriter' = TRUE
    /\ cache' = TornCache
    /\ refreshPc' = "store"
    /\ UNCHANGED <<cacheReaders, refreshBuf, cacheTick, cacheCtxDone, metricsVersion,
                   request>>
    /\ UNCHANGED notCacheVars

\* end of line 77 and line 78: the assignment completes, c.mu.Unlock().
RefreshStore ==
    /\ refreshPc = "store"
    /\ cache' = refreshBuf
    /\ cacheWriter' = FALSE
    /\ refreshPc' = "select"
    /\ UNCHANGED <<cacheReaders, refreshBuf, cacheTick, cacheCtxDone, metricsVersion,
                   request>>
    /\ UNCHANGED notCacheVars

\* ServeHTTP is called for a scrape request: c.mu.RLock() (line 98).
ReqRLock(g) ==
    /\ request[g].pc = "idle"
    /\ CacheCanRLock
    /\ cacheReaders' = cacheReaders \cup {g}
    /\ request' = [request EXCEPT ![g] =
                      [pc |-> "locked", resp |-> <<>>, serialized |-> FALSE,
                       served |-> FALSE]]
    /\ UNCHANGED <<cache, cacheWriter, refreshPc, refreshBuf, cacheTick, cacheCtxDone,
                   metricsVersion>>
    /\ UNCHANGED notCacheVars

\* a handler that keeps the text it serialized for a request as the cache
ReqServe_FillsCache(g) ==
    /\ request[g].pc = "locked"
    /\ cacheReaders' = cacheReaders \ {g}
    /\ request' = [request EXCEPT ![g] =
                      IF CacheIsEmpty(cache)
                      THEN [pc |-> "idle", resp |-> Serialize(metricsVersion),
                            serialized |-> TRUE, served |-> TRUE]
                      ELSE [pc |-> "idle", resp |-> cache,
                            serialized |-> FALSE, served |-> TRUE]]
    /\ cache' = IF CacheIsEmpty(cache) THEN Serialize(metricsVersion) ELSE cache
    /\ UNCHANGED <<cacheWriter, refreshPc, refreshBuf, cacheTick, cacheCtxDone,
                   metricsVersion>>
    /\ UNCHANGED notCacheVars

\* lines 102-109: write the live serialization when the cache is empty, else
\* the cache; the deferred c.mu.RUnlock() runs.
ReqServe(g) ==
    /\ request[g].pc = "locked"
    /\ cacheReaders' = cacheReaders \ {g}
    /\ request' = [request EXCEPT ![g] =
                      IF CacheIsEmpty(cache)
                      THEN [pc |-> "idle", resp |-> Serialize(metricsVersion),
                            serialized |-> TRUE, served |-> TRUE]
                      ELSE [pc |-> "idle", resp |-> cache,
                            serialized |-> FALSE, served |-> TRUE]]
    /\ UNCHANGED <<cache, cacheWriter, refreshPc, refreshBuf, cacheTick, cacheCtxDone,
                   metricsVersion>>
    /\ UNCHANGED notCacheVars

\* A collection changes the metrics the gatherer returns.
MetricsChange ==
    /\ metricsVersion < MaxVersion
    /\ metricsVersion' = metricsVersion + 1
    /\ UNCHANGED <<cache, cacheWriter, cacheReaders, refreshPc, refreshBuf, cacheTick,
                   cacheCtxDone, request>>
    /\ UNCHANGED notCacheVars

\* The application's context is cancelled (shutdown).
CacheCancel ==
    /\ ~cacheCtxDone
    /\ refreshPc # "stopped"
    /\ cacheCtxDone' = TRUE
    /\ UNCHANGED <<cache, cacheWriter, cacheReaders, refreshPc, refreshBuf, cacheTick,
                   metricsVersion, request>>
    /\ UNCHANGED notCacheVars

CacheNext ==
    \/ CacheTickFire
    \/ RefreshTick
    \/ RefreshDone
    \/ RefreshGather
    \/ RefreshLock
    \/ RefreshStore
    \/ \E g \in Goroutines : ReqRLock(g)
    \/ \E g \in Goroutines : ReqServe(g)
    \/ MetricsChange
    \/ CacheCancel

\* The scheduling the runtime gives: the ticker keeps firing, and a goroutine
\* that can take its next step takes it.
CacheFairness ==
    /\ WF_vars(CacheTickFire)
    /\ WF_vars(RefreshTick)
    /\ WF_vars(RefreshGather)
    /\ WF_vars(RefreshLock)
    /\ WF_vars(RefreshStore)
    /\ \A g \in Goroutines : WF_vars(ReqServe(g))

(***************************************************************************)
(* The background loops and the context they share: the metrics scheduler  *)
(* (StartMetricsCollection), refreshGTFSBundles                            *)
(* (internal/gtfs/gtfs_bundles.go), VehicleLastSeen.ClearRoutine           *)
(* (internal/metrics/vehicle_store.go) and refreshConfig                   *)
(* (internal/config/config_loader.go).                                     *)
(***************************************************************************)
\* The loops that wait in a select on ctx.Done() and a ticker.
TickerLoops == {"metrics", "bundles", "evict"}
\* The loop that polls ctx.Done() and then sleeps.
SleepLoops == {"config"}
Loops == TickerLoops \cup SleepLoops

\* main: every loop is started, the context is live.
LoopInit ==
    /\ loopPc = [l \in Loops |-> "select"]
    /\ loopTick = [l \in Loops |-> FALSE]
    /\ sleepLeft = 0
    /\ loopCtxDone = FALSE

\* No loop started: the state the other specifications keep.
LoopIdle ==
    /\ loopPc = [l \in Loops |-> "stopped"]
    /\ loopTick = [l \in Loops |-> FALSE]
    /\ sleepLeft = 0
    /\ loopCtxDone = FALSE

\* A ticker's interval elapses: a tick is put in its channel unless one waits.
LoopTickFire(l) ==
    /\ l \in TickerLoops
    /\ loopPc[l] # "stopped"
    /\ ~loopTick[l]
    /\ loopTick' = [loopTick EXCEPT ![l] = TRUE]
    /\ UNCHANGED <<loopPc, sleepLeft, loopCtxDone>>
    /\ UNCHANGED notLoopVars

\* select, case <-ticker.C: the loop's work starts.
LoopSelectTick(l) ==
    /\ l \in TickerLoops
    /\ loopPc[l] = "select"
    /\ loopTick[l]
    /\ loopTick' = [loopTick EXCEPT ![l] = FALSE]
    /\ loopPc' = [loopPc EXCEPT ![l] = "work"]
    /\ UNCHANGED <<sleepLeft, loopCtxDone>>
    /\ UNCHANGED notLoopVars

\* select, case <-ctx.Done(): return.
LoopSelectDone(l) ==
    /\ loopPc[l] = "select"
    /\ loopCtxDone
    /\ loopPc' = [loopPc EXCEPT ![l] = "stopped"]
    /\ UNCHANGED <<loopTick, sleepLeft, loopCtxDone>>
    /\ UNCHANGED notLoopVars

\* refreshConfig, select with a default case: ctx.Done() is not ready, so the
\* default case runs and a load starts.
ConfigSelectDefault(l) ==
    /\ l \in SleepLoops
    /\ loopPc[l] = "select"
    /\ ~loopCtxDone
    /\ loopPc' = [loopPc EXCEPT ![l] = "work"]
    /\ UNCHANGED <<loopTick, sleepLeft, loopCtxDone>>
    /\ UNCHANGED notLoopVars

\* The work in flight completes: a ticker loop returns to its select, the
\* config loop calls time.Sleep(interval).
LoopWorkDone(l) ==
    /\ loopPc[l] = "work"
    /\ IF l \in SleepLoops
       THEN /\ loopPc' = [loopPc EXCEPT ![l] = "sleep"]
            /\ sleepLeft' = SleepUnits
       ELSE /\ loopPc' = [loopPc EXCEPT ![l] = "select"]
            /\ UNCHANGED sleepLeft
    /\ UNCHANGED <<loopTick, loopCtxDone>>
    /\ UNCHANGED notLoopVars

\* Time passes while the config loop sleeps.
SleepPasses(l) ==
    /\ l \in SleepLoops
    /\ loopPc[l] = "sleep"
    /\ sleepLeft > 0
    /\ sleepLeft' = sleepLeft - 1
    /\ UNCHANGED <<loopPc, loopTick, loopCtxDone>>
    /\ UNCHANGED notLoopVars

\* time.Sleep returns once the whole interval has passed.
SleepReturns(l) ==
    /\ l \in SleepLoops
    /\ loopPc[l] = "sleep"
    /\ sleepLeft = 0
    /\ loopPc' = [loopPc EXCEPT ![l] = "select"]
    /\ UNCHANGED <<loopTick, sleepLeft, loopCtxDone>>
    /\ UNCHANGED notLoopVars

\* The shared context is cancelled (context.WithCancel in main).
LoopCancel ==
    /\ ~loopCtxDone
    /\ loopCtxDone' = TRUE
    /\ UNCHANGED <<loopPc, loopTick, sleepLeft>>
    /\ UNCHANGED notLoopVars

LoopNext ==
    \/ \E l \in Loops : LoopTickFire(l)
    \/ \E l \in Loops : LoopSelectTick(l)
    \/ \E l \in Loops : LoopSelectDone(l)
    \/ \E l \in Loops : ConfigSelectDefault(l)
    \/ \E l \in Loops : LoopWorkDone(l)
    \/ \E l \in Loops : SleepPasses(l)
    \/ \E l \in Loops : SleepReturns(l)
    \/ LoopCancel

(***************************************************************************)
(* The target list: Config.UpdateConfig and Config.GetServers              *)
(* (internal/config/config.go, lines 141-173), read by the collection pass *)
(* of StartMetricsCollection.                                              *)
(***************************************************************************)
\* The goroutines that call GetServers: the scheduler's, which then iterates
\* over the copy, and a healthcheck request's, which only takes its length.
CfgCallers == {"scheduler", "handler"}

\* Config.Servers in the middle of the assignment cfg.Servers = newServers.
TornList == <<0>>

\* cfg.Mu (sync.RWMutex).
CfgCanLock == ~cfgWriter /\ cfgReaders = {}
CfgCanRLock_IgnoresWriter == TRUE
CfgCanRLock == ~cfgWriter

\* NewConfig with the list loaded at startup; nobody calls the Config yet.
ConfigInit ==
    /\ cfgSrv \in TargetLists
    /\ cfgWriter = FALSE
    /\ cfgReaders = {}
    /\ updNew = <<>>
    /\ rdPc = [g \in CfgCallers |-> "idle"]
    /\ rdList = [g \in CfgCallers |-> <<>>]
    /\ rdSeen = [g \in CfgCallers |-> <<>>]

\* No Config in use: the state the other specifications keep.
ConfigIdle ==
    /\ cfgSrv = <<>>
    /\ cfgWriter = FALSE
    /\ cfgReaders = {}
    /\ updNew = <<>>
    /\ rdPc = [g \in CfgCallers |-> "idle"]
    /\ rdList = [g \in CfgCallers |-> <<>>]
    /\ rdSeen = [g \in CfgCallers |-> <<>>]

\* UpdateConfig(newServers): cfg.Mu.Lock(), the assignment begins.
CfgUpdateLock(newServers) ==
    /\ CfgCanLock
    /\ cfgWriter' = TRUE
    /\ updNew' = newServers
    /\ cfgSrv' = TornList
    /\ UNCHANGED <<cfgReaders, rdPc, rdList, rdSeen>>
    /\ UNCHANGED notConfigVars

\* UpdateConfig: the assignment completes, the deferred cfg.Mu.Unlock() runs.
CfgUpdateStore ==
    /\ cfgWriter
    /\ cfgSrv' = updNew
    /\ cfgWriter' = FALSE
    /\ updNew' = <<>>
    /\ UNCHANGED <<cfgReaders, rdPc, rdList, rdSeen>>
    /\ UNCHANGED notConfigVars

\* GetServers is called (by the scheduler: a tick was taken): cfg.Mu.RLock().
CfgGetRLock(g) ==
    /\ rdPc[g] = "idle"
    /\ CfgCanRLock
    /\ cfgReaders' = cfgReaders \cup {g}
    /\ rdPc' = [rdPc EXCEPT ![g] = "rlocked"]
    /\ rdList' = [rdList EXCEPT ![g] = <<>>]
    /\ rdSeen' = [rdSeen EXCEPT ![g] = <<>>]
    /\ UNCHANGED <<cfgSrv, cfgWriter, updNew>>
    /\ UNCHANGED notConfigVars

\* GetServers: copy cfg.Servers, RUnlock, return; in the scheduler the range
\* loop over the copy starts (and ends at once when the copy is empty).
CfgGetCopy(g) ==
    /\ rdPc[g] = "rlocked"
    /\ rdList' = [rdList EXCEPT ![g] = cfgSrv]
    /\ cfgReaders' = cfgReaders \ {g}
    /\ rdPc' = [rdPc EXCEPT ![g] = IF g = "scheduler" /\ Len(cfgSrv) > 0
                                     THEN "pass" ELSE "idle"]
    /\ UNCHANGED <<cfgSrv, cfgWriter, updNew, rdSeen>>
    /\ UNCHANGED notConfigVars

\* One iteration of the range loop: CollectMetricsForServer for the next
\* element of the copy.
CfgPassStep(g) ==
    /\ rdPc[g] = "pass"
    /\ LET i == Len(rdSeen[g]) + 1
       IN  /\ rdSeen' = [rdSeen EXCEPT ![g] = Append(@, rdList[g][i])]
           /\ rdPc' = [rdPc EXCEPT ![g] = IF i = Len(rdList[g]) THEN "idle" ELSE "pass"]
    /\ UNCHANGED <<cfgSrv, cfgWriter, cfgReaders, updNew, rdList>>
    /\ UNCHANGED notConfigVars

ConfigNext ==
    \/ \E newServers \in TargetLists : CfgUpdateLock(newServers)
    \/ CfgUpdateStore
    \/ \E g \in CfgCallers : CfgGetRLock(g)
    \/ \E g \in CfgCallers : CfgGetCopy(g)
    \/ \E g \in CfgCallers : CfgPassStep(g)

(***************************************************************************)
(* storeGTFSBundle (internal/gtfs/gtfs_bundles.go, lines 188-204) and      *)
(* geo.ComputeBoundingBox (internal/geo/geo_cluster.go, lines 97-137).     *)
(***************************************************************************)
\* The goroutines downloadGTFSBundles starts, one per element of its list.
BundleTasks == {1, 2}

\* Stops of a bundle: latitude and longitude, either of which may be nil.
BundleStops ==
    {[lat |-> NilCoord, lon |-> NilCoord],
     [lat |-> 10, lon |-> 20],
     [lat |-> 30, lon |-> 0]}

\* A StaticSnapshot, as far as the bounding box depends on it: its stops.
Snapshots == SUBSET BundleStops

SetMin(S) == CHOOSE x \in S : \A y \in S : x <= y
SetMax(S) == CHOOSE x \in S : \A y \in S : x >= y

NoBox == [MinLat |-> 0, MaxLat |-> 0, MinLon |-> 0, MaxLon |-> 0]

\* geo.ComputeBoundingBox(stops): <<BoundingBox, err = nil>>.
ComputeBoundingBox(stops) ==
    LET located == {st \in stops : st.lat # NilCoord /\ st.lon # NilCoord}
    IN  IF stops = {} THEN <<NoBox, FALSE>>
        ELSE IF located = {} THEN <<NoBox, FALSE>>
        ELSE <<[MinLat |-> SetMin({st.lat : st \in located}),
                MaxLat |-> SetMax({st.lat : st \in located}),
                MinLon |-> SetMin({st.lon : st \in located}),
                MaxLon |-> SetMax({st.lon : st \in located})], TRUE>>

NoTask == [pc |-> "idle", server |-> 0, stops |-> {}, ok |-> TRUE]

\* Both stores empty, as NewStaticStore and NewBoundingBoxStore leave them.
BundleInit ==
    /\ bundleStatic = <<>>
    /\ bundleBox = <<>>
    /\ bundleTask = [t \in BundleTasks |-> NoTask]

BundleIdle == BundleInit

\* storeGTFSBundle, lines 193-195: staticStore.Set(serverID, staticData).
BundleSetStatic(t, serverID, stops) ==
    /\ bundleTask[t].pc = "idle"
    /\ bundleStatic' = StaticPut(bundleStatic, serverID, stops)
    /\ bundleTask' = [bundleTask EXCEPT ![t] =
                         [pc |-> "box", server |-> serverID, stops |-> stops, ok |-> TRUE]]
    /\ UNCHANGED bundleBox
    /\ UNCHANGED notBundleVars

\* storeGTFSBundle, lines 197-203: compute the box; return the error, or
\* boundingBoxStore.Set(serverID, bbox) and return nil.
BundleSetBox(t) ==
    /\ bundleTask[t].pc = "box"
    /\ LET r == ComputeBoundingBox(bundleTask[t].stops)
       IN  /\ bundleBox' = IF r[2] THEN BoundingBoxPut(bundleBox, bundleTask[t].server, r[1])
                           ELSE bundleBox
           /\ bundleTask' = [bundleTask EXCEPT ![t] = [@ EXCEPT !.pc = "idle", !.ok = r[2]]]
    /\ UNCHANGED bundleStatic
    /\ UNCHANGED notBundleVars

BundleNext ==
    \/ \E t \in BundleTasks, serverID \in StoreServers, stops \in Snapshots :
          BundleSetStatic(t, serverID, stops)
    \/ \E t \in BundleTasks : BundleSetBox(t)

(***************************************************************************)
(* fetchAndStoreGTFSRTFeed (internal/gtfs/gtfs_bundles.go, lines 241-292)  *)
(* and RealtimeStore (internal/gtfs/realtime_store.go).                    *)
(***************************************************************************)
\* RealtimeStore.data before the first Set.
NoRealtime == [server |-> 0, vehicles |-> 0]

\* A response body that remoteGtfs.ParseRealtime rejects.
Garbage == -1

\* Response bodies: garbage, or a feed message with n vehicles.
Bodies == {Garbage} \cup (0..MaxFeedLen)

\* What client.Do returns for the request: a transport error, or a response
\* with a status and a body.
FetchOutcomes ==
    {[kind |-> "err", status |-> 0, body |-> Garbage]}
    \cup {[kind |-> "resp", status |-> c, body |-> b] : c \in StatusCodes, b \in Bodies}

\* remoteGtfs.ParseRealtime(data, ...): <<feed, err = nil>>.
ParseRealtime(body) == IF body = Garbage THEN <<0, FALSE>> ELSE <<body, TRUE>>

\* fetchAndStoreGTFSRTFeed(server, realtimeStore, client) with a URL that
\* parses (urlOk) or not and the outcome o of client.Do:
\* <<stored data after the call, err = nil, calls of client.Do>>.
FetchAndStore(data, server, urlOk, o) ==
    IF ~urlOk THEN <<data, FALSE, 0>>
    ELSE IF o.kind = "err" THEN <<data, FALSE, 1>>
    ELSE IF ~ParseRealtime(o.body)[2] THEN <<data, FALSE, 1>>
    ELSE <<[server |-> server, vehicles |-> ParseRealtime(o.body)[1]], TRUE, 1>>

NoFetch == [called |-> FALSE]

FetchInit ==
    /\ rtData = NoRealtime
    /\ fetchLast = NoFetch

FetchIdle == FetchInit

\* One call of fetchAndStoreGTFSRTFeed.
FetchRT(server, urlOk, o) ==
    /\ LET r == FetchAndStore(rtData, server, urlOk, o)
       IN  /\ rtData' = r[1]
           /\ fetchLast' = [called |-> TRUE, server |-> server, urlOk |-> urlOk,
                            outcome |-> o, before |-> rtData, ok |-> r[2],
                            calls |-> r[3]]
    /\ UNCHANGED notFetchVars

FetchNext ==
    \E server \in StoreServers, urlOk \in BOOLEAN, o \in FetchOutcomes :
       FetchRT(server, urlOk, o)

(***************************************************************************)
(* Stop clustering: GetClusterID and s2ClusterID                           *)
(* (internal/geo/geo_cluster.go, lines 10-69).                             *)
(***************************************************************************)
\* gtfs.StopType: 0 stop/platform, 1 station, 2 entrance/exit, 3 generic node,
\* 4 boarding area; 5 stands for any other value.
StopTypes == {0, 1, 2, 3, 4, 5}

\* Coordinates of the stop itself: <<Latitude, Longitude>>, NilCoord for nil.
StopCoords ==
    {<<NilCoord, NilCoord>>, <<NilCoord, 20>>, <<0, 0>>, <<47, -122>>, <<91, 20>>}

\* The parent chain of a stop, nearest first, as the types of its ancestors.
AncestorChains == UNION {[1..n -> StopTypes] : n \in 0..MaxAncestors}

\* The stops GetClusterID is called with.
ClusterStops ==
    {[Type |-> t, Latitude |-> c[1], Longitude |-> c[2], Ancestors |-> a] :
        t \in StopTypes, c \in StopCoords, a \in AncestorChains}

\* stop.Id, and the Id of the i-th ancestor (1 = stop.Parent).
StopId == <<"stop">>
AncestorId(i) == <<"ancestor", i>>

\* Side of an S2 cell in the units of the model's coordinates.
S2CellSide == 5

\* s2ClusterID(lat, lon, s2Level): the id of the cell the point lies in.
s2ClusterID(lat, lon) == <<"s2", lat \div S2CellSide, lon \div S2CellSide>>

\* return "", "", false
NotClusterable == [clusterID |-> <<>>, clusterType |-> "", ok |-> FALSE]
StationCluster(id) == [clusterID |-> id, clusterType |-> "station", ok |-> TRUE]
S2Cluster(stop) ==
    [clusterID |-> s2ClusterID(stop.Latitude, stop.Longitude), clusterType |-> "s2",
     ok |-> TRUE]

HasParent(stop) == Len(stop.Ancestors) >= 1
HasLatLon(stop) == stop.Latitude # NilCoord /\ stop.Longitude # NilCoord

\* case 0 (lines 35-44): stop or platform.  stop.Root() is the last ancestor.
ClusterOfStop(stop) ==
    IF HasParent(stop)
    THEN LET n == Len(stop.Ancestors)
         IN  IF stop.Ancestors[n] = 1 THEN StationCluster(AncestorId(n))
             ELSE NotClusterable
    ELSE IF HasLatLon(stop) THEN S2Cluster(stop)
    ELSE NotClusterable

\* case 1 (lines 45-47): station.
ClusterOfStation(stop) == StationCluster(StopId)

\* case 2, 3 (lines 48-51): entrance/exit or generic node.
ClusterOfEntrance_UsesRoot(stop) ==
    IF HasParent(stop) /\ stop.Ancestors[Len(stop.Ancestors)] = 1
    THEN StationCluster(AncestorId(Len(stop.Ancestors)))
    ELSE NotClusterable
ClusterOfEntrance(stop) ==
    IF HasParent(stop) /\ stop.Ancestors[1] = 1 THEN StationCluster(AncestorId(1))
    ELSE NotClusterable

\* case 4 (lines 52-66): boarding area.
ClusterOfBoardingArea_AnyParent(stop) ==
    IF HasParent(stop)
    THEN IF Len(stop.Ancestors) = 1
         THEN IF HasLatLon(stop) THEN S2Cluster(stop) ELSE NotClusterable
         ELSE IF stop.Ancestors[2] = 1 THEN StationCluster(AncestorId(2))
         ELSE NotClusterable
    ELSE NotClusterable
ClusterOfBoardingArea(stop) ==
    IF HasParent(stop) /\ stop.Ancestors[1] = 0
    THEN IF Len(stop.Ancestors) = 1
         THEN IF HasLatLon(stop) THEN S2Cluster(stop) ELSE NotClusterable
         ELSE IF stop.Ancestors[2] = 1 THEN StationCluster(AncestorId(2))
         ELSE NotClusterable
    ELSE NotClusterable

\* GetClusterID(stop): the switch on stop.Type.
GetClusterID(stop) ==
    CASE stop.Type = 0 -> ClusterOfStop(stop)
      [] stop.Type = 1 -> ClusterOfStation(stop)
      [] stop.Type \in {2, 3} -> ClusterOfEntrance(stop)
      [] stop.Type = 4 -> ClusterOfBoardingArea(stop)
      [] OTHER -> NotClusterable

NoResult == [clusterID |-> <<>>, clusterType |-> "none", ok |-> FALSE]

\* A stop of an unmatched-stops map, before GetClusterID is called with it.
ClusterInit ==
    /\ clStop \in ClusterStops
    /\ clCalls = 0
    /\ clPrev = NoResult
    /\ clResult = NoResult

ClusterIdle ==
    /\ clStop = [Type |-> 5, Latitude |-> NilCoord, Longitude |-> NilCoord,
                 Ancestors |-> <<>>]
    /\ clCalls = 0
    /\ clPrev = NoResult
    /\ clResult = NoResult

\* One call geo.GetClusterID(stop); the model follows two calls per stop.
CallGetClusterID ==
    /\ clCalls < 2
    /\ clCalls' = clCalls + 1
    /\ clPrev' = clResult
    /\ clResult' = GetClusterID(clStop)
    /\ UNCHANGED clStop
    /\ UNCHANGED notClusterVars

ClusterNext == CallGetClusterID

(***************************************************************************)
(* The config refresh cycle: refreshConfig and loadConfigFromURL           *)
(* (internal/config/config_loader.go, lines 44-65 and 103-156).            *)
(***************************************************************************)
\* A response body that json.Unmarshal rejects.
BadJson == <<0>>

\* What one load meets: DoWithBackoff returns an error (transport error,
\* retries exhausted or cancellation) or a response with a status; reading the
\* body succeeds or not; the body is invalid JSON or the JSON of a list.
LoadOutcomes ==
    {[doErr |-> e, status |-> c, readOk |-> r, body |-> b] :
        e \in BOOLEAN, c \in StatusCodes, r \in BOOLEAN,
        b \in {BadJson} \cup TargetLists}

\* loadConfigFromURL: <<servers, err = nil>>.
loadConfigFromURL_IgnoresStatus(o) ==
    IF o.doErr THEN <<<<>>, FALSE>>
    ELSE IF ~o.readOk THEN <<<<>>, FALSE>>
    ELSE IF o.body = BadJson THEN <<<<>>, FALSE>>
    ELSE <<o.body, TRUE>>
loadConfigFromURL(o) ==
    IF o.doErr THEN <<<<>>, FALSE>>
    ELSE IF o.status # 200 THEN <<<<>>, FALSE>>
    ELSE IF ~o.readOk THEN <<<<>>, FALSE>>
    ELSE IF o.body = BadJson THEN <<<<>>, FALSE>>
    ELSE <<o.body, TRUE>>

NoLoad == [called |-> FALSE]

\* main: the list loaded at startup (main exits when it is empty), the
\* refresh goroutine started.
RefreshInit ==
    /\ rcServers \in TargetLists \ {<<>>}
    /\ rcPc = "select"
    /\ rcCtxDone = FALSE
    /\ rcLast = NoLoad

\* No refresh loop (no --config-url): the state the other specifications keep.
RefreshIdle ==
    /\ rcServers = <<>>
    /\ rcPc = "stopped"
    /\ rcCtxDone = FALSE
    /\ rcLast = NoLoad

\* select, default case (line 50): a cycle starts.
RcSelectDefault ==
    /\ rcPc = "select"
    /\ ~rcCtxDone
    /\ rcPc' = "load"
    /\ UNCHANGED <<rcServers, rcCtxDone, rcLast>>
    /\ UNCHANGED notRefreshVars

\* select, case <-ctx.Done() (lines 47-49): return.
RcSelectDone ==
    /\ rcPc = "select"
    /\ rcCtxDone
    /\ rcPc' = "stopped"
    /\ UNCHANGED <<rcServers, rcCtxDone, rcLast>>
    /\ UNCHANGED notRefreshVars

\* lines 51-62: load; on an error report it, else cfg.UpdateConfig(newServers);
\* then time.Sleep(interval).
RcLoad(o) ==
    /\ rcPc = "load"
    /\ LET r == loadConfigFromURL(o)
       IN  /\ rcServers' = IF r[2] THEN r[1] ELSE rcServers
           /\ rcLast' = [called |-> TRUE, outcome |-> o, before |-> rcServers]
    /\ rcPc' = "sleep"
    /\ UNCHANGED rcCtxDone
    /\ UNCHANGED notRefreshVars

\* time.Sleep(interval) returns: back to the select.
RcWake ==
    /\ rcPc = "sleep"
    /\ rcPc' = "select"
    /\ UNCHANGED <<rcServers, rcCtxDone, rcLast>>
    /\ UNCHANGED notRefreshVars

\* The loop's context is cancelled.
RcCancel ==
    /\ ~rcCtxDone
    /\ rcPc # "stopped"
    /\ rcCtxDone' = TRUE
    /\ UNCHANGED <<rcServers, rcPc, rcLast>>
    /\ UNCHANGED notRefreshVars

RefreshNext ==
    \/ RcSelectDefault
    \/ RcSelectDone
    \/ \E o \in LoadOutcomes : RcLoad(o)
    \/ RcWake
    \/ RcCancel

(***************************************************************************)
(* The match gauges: checkAgenciesWithCoverageMatch compares the bundle's  *)
(* agencies with the agencies-with-coverage endpoint, and                  *)
(* checkVehicleCountMatch compares the realtime feed's vehicles with the   *)
(* vehicles-for-agency endpoint.  CollectMetricsForServer runs both for    *)
(* one server at a time, the second right after a successful fetch has     *)
(* stored the server's feed.  What the static store holds for the server   *)
(* and what the fetch stored are inputs of the checks; an API call ends in *)
(* an error, in a nil response, or in a list.                              *)
(***************************************************************************)
NoBundle == -1
NoRealtimeData == -1
ApiError == -2
ApiNil == -1
FetchFailed == -1
BundleAgencies == {NoBundle} \cup (0..MaxCount)
FetchResults == {FetchFailed} \cup (0..MaxCount)
ApiOutcomes == {ApiError, ApiNil} \cup (0..MaxCount)

\* what a count yields: whether it returned an error, and the count if not
CountErr == [err |-> TRUE, n |-> 0]
CountOk(n) == [err |-> FALSE, n |-> n]

checkAgenciesWithCoverage(agencies) ==
    IF agencies = NoBundle THEN CountErr
    ELSE IF agencies = 0 THEN CountErr
    ELSE CountOk(agencies)

\* getAgenciesWithCoverage and vehiclesForAgencyAPI: the same three endings
ApiCount(o) ==
    IF o = ApiError THEN CountErr
    ELSE IF o = ApiNil THEN CountOk(0)
    ELSE CountOk(o)

countVehiclePositions(vehicles) ==
    IF vehicles = NoRealtimeData THEN CountErr ELSE CountOk(vehicles)

MatchValue_AtLeast(a, b) == IF a >= b THEN 1 ELSE 0

MatchValue(a, b) == IF a = b THEN 1 ELSE 0

\* the gauge's value after the check: the first error returns before the Set
checkAgenciesWithCoverageMatch(gauge, agencies, o) ==
    LET static == checkAgenciesWithCoverage(agencies)
        coverage == ApiCount(o)
    IN  IF static.err THEN gauge
        ELSE IF coverage.err THEN gauge
        ELSE MatchValue(coverage.n, static.n)

checkVehicleCountMatch(gauge, vehicles, o) ==
    LET gtfsRt == countVehiclePositions(vehicles)
        api == ApiCount(o)
    IN  IF gtfsRt.err THEN gauge
        ELSE IF api.err THEN gauge
        ELSE MatchValue(gtfsRt.n, api.n)

NoCheck == [op |-> "none", server |-> 0, held |-> 0, api |-> 0]

MatchInit ==
    /\ agenciesMatch = [s \in StoreServers |-> Unset]
    /\ vehicleCountMatch = [s \in StoreServers |-> Unset]
    /\ matchLast = NoCheck

MatchIdle == MatchInit

\* CollectMetricsForServer: the agency-coverage step
MatchCheckAgencies(s, agencies, o) ==
    /\ agenciesMatch' = [agenciesMatch EXCEPT
           ![s] = checkAgenciesWithCoverageMatch(agenciesMatch[s], agencies, o)]
    /\ matchLast' = [op |-> "agencies", server |-> s, held |-> agencies, api |-> o]
    /\ UNCHANGED vehicleCountMatch
    /\ UNCHANGED notMatchVars

\* CollectMetricsForServer: a failed fetch of the feed returns before the
\* vehicle-count step
MatchFetchFails(s) ==
    /\ matchLast' = [op |-> "fetchFailed", server |-> s, held |-> FetchFailed, api |-> ApiError]
    /\ UNCHANGED <<agenciesMatch, vehicleCountMatch>>
    /\ UNCHANGED notMatchVars

\* CollectMetricsForServer: the fetch stores a feed of f vehicles, and the
\* vehicle-count step reads it back
MatchFetchAndCheckVehicles(s, f, o) ==
    /\ vehicleCountMatch' = [vehicleCountMatch EXCEPT
           ![s] = checkVehicleCountMatch(vehicleCountMatch[s], f, o)]
    /\ matchLast' = [op |-> "vehicles", server |-> s, held |-> f, api |-> o]
    /\ UNCHANGED agenciesMatch
    /\ UNCHANGED notMatchVars

MatchNext ==
    \/ \E s \in StoreServers, agencies \in BundleAgencies, o \in ApiOutcomes :
          MatchCheckAgencies(s, agencies, o)
    \/ \E s \in StoreServers : MatchFetchFails(s)
    \/ \E s \in StoreServers, f \in 0..MaxCount, o \in ApiOutcomes :
          MatchFetchAndCheckVehicles(s, f, o)

(***************************************************************************)
(* Calls of geo.IsValidLatLon, geo.ComputeBoundingBox and                  *)
(* BoundingBox.Contains (internal/geo/geo_cluster.go), with arguments on   *)
(* and around the edges of the ranges.  Contains is called on the box the  *)
(* last ComputeBoundingBox produced: the program has no other boxes.       *)
(***************************************************************************)
GeoLats == {-91, -90, -5, 0, 10, 30, 90, 91, NaN}
GeoLons == {-181, -180, 0, 20, 21, 180, 181, NaN}

\* Stops of a bundle: either coordinate may be nil.
GeoStops ==
    {[lat |-> NilCoord, lon |-> NilCoord],
     [lat |-> 10, lon |-> NilCoord],
     [lat |-> 10, lon |-> 20],
     [lat |-> 30, lon |-> 0],
     [lat |-> -5, lon |-> 21]}

NoGeoCall ==
    [fn |-> "none", lat |-> 0, lon |-> 0, stops |-> {}, box |-> NoBox, ok |-> FALSE,
     ret |-> FALSE]

GeoInit == geoCall = NoGeoCall

GeoIdle == GeoInit

CallIsValidLatLon(lat, lon) ==
    /\ geoCall' = [NoGeoCall EXCEPT !.fn = "IsValidLatLon", !.lat = lat, !.lon = lon,
                                    !.ret = IsValidLatLon(lat, lon)]
    /\ UNCHANGED notGeoVars

CallComputeBoundingBox(stops) ==
    /\ LET r == ComputeBoundingBox(stops)
       IN  geoCall' = [NoGeoCall EXCEPT !.fn = "ComputeBoundingBox", !.stops = stops,
                                        !.box = r[1], !.ok = r[2]]
    /\ UNCHANGED notGeoVars

CallContains(lat, lon) ==
    /\ geoCall.ok
    /\ geoCall' = [geoCall EXCEPT !.fn = "Contains", !.lat = lat, !.lon = lon,
                                  !.ret = Contains(geoCall.box, lat, lon)]
    /\ UNCHANGED notGeoVars

GeoNext ==
    \/ \E lat \in GeoLats, lon \in GeoLons : CallIsValidLatLon(lat, lon)
    \/ \E stops \in SUBSET GeoStops : CallComputeBoundingBox(stops)
    \/ \E lat \in GeoLats, lon \in GeoLons : CallContains(lat, lon)

(***************************************************************************)
(* downloadGTFSBundles (internal/gtfs/gtfs_bundles.go, lines 39-75), the   *)
(* goroutine it starts per element of its list, and its callers: main at   *)
(* startup and refreshGTFSBundles at every tick, both with the list main   *)
(* loaded at startup (cmd/watchdog/main.go, lines 587 and 595).            *)
(***************************************************************************)
\* The lists main can load: distinct servers, not empty (main exits on an
\* empty list); the lists a config refresh can install may be empty.
DlLists ==
    {q \in UNION {[1..n -> StoreServers] : n \in 0..Cardinality(StoreServers)} :
        \A i, j \in 1..Len(q) : i # j => q[i] # q[j]}
StartupLists == DlLists \ {<<>>}

\* What a download yields: an error, or a bundle with these stops.
\* The third bundle has no stop with coordinates: its box cannot be computed.
DlBundles ==
    {{[lat |-> 10, lon |-> 20]}, {[lat |-> 30, lon |-> 0]},
     {[lat |-> NilCoord, lon |-> NilCoord]}}
DownloadOutcomes ==
    {[ok |-> FALSE, bundle |-> {}]} \cup {[ok |-> TRUE, bundle |-> b] : b \in DlBundles}

NoGoroutine == [pc |-> "none", server |-> 0, ok |-> FALSE, bundle |-> {}]

\* the list the bundle loop hands to downloadGTFSBundles
RefreshList_CurrentConfig(startup, current) == current

RefreshList(startup, current) == startup

\* after downloadGTFSBundle returns: on an error the goroutine returns
AfterDownload_StoresAnyway(ok) == "store"

AfterDownload(ok) == IF ok THEN "store" ELSE "done"

\* wg.Wait() returns when the counter is zero
WaitReturns_AtOnce(wg) == TRUE

WaitReturns(wg) == wg = 0

DownloadInit ==
    /\ dlServers \in StartupLists
    /\ dlCfg = dlServers
    /\ dlPc = "select"
    /\ dlNext = 0
    /\ dlWg = 0
    /\ dlTask = <<>>
    /\ dlStatic = <<>>
    /\ dlBox = <<>>
    /\ dlAtCall = <<dlStatic, dlBox>>

DownloadIdle ==
    /\ dlServers = <<>>
    /\ dlCfg = <<>>
    /\ dlPc = "stopped"
    /\ dlNext = 0
    /\ dlWg = 0
    /\ dlTask = <<>>
    /\ dlStatic = <<>>
    /\ dlBox = <<>>
    /\ dlAtCall = <<dlStatic, dlBox>>

\* main at startup, or case <-ticker.C of refreshGTFSBundles: the call begins
DlCall ==
    /\ dlPc = "select"
    /\ LET servers == RefreshList(dlServers, dlCfg)
       IN  /\ dlTask' = [i \in 1..Len(servers) |-> [NoGoroutine EXCEPT !.server = servers[i]]]
           /\ dlNext' = 1
    /\ dlPc' = "spawn"
    /\ dlWg' = 0
    /\ dlAtCall' = <<dlStatic, dlBox>>
    /\ UNCHANGED <<dlServers, dlCfg, dlStatic, dlBox>>
    /\ UNCHANGED notDlVars

\* one turn of the range loop: wg.Add(1) and the go statement; after the last
\* element the caller is at wg.Wait()
DlSpawn ==
    /\ dlPc = "spawn"
    /\ IF dlNext <= Len(dlTask)
       THEN /\ dlWg' = dlWg + 1
            /\ dlTask' = [dlTask EXCEPT ![dlNext].pc = "download"]
            /\ dlNext' = dlNext + 1
            /\ UNCHANGED dlPc
       ELSE /\ dlPc' = "wait"
            /\ UNCHANGED <<dlWg, dlTask, dlNext>>
    /\ UNCHANGED <<dlServers, dlCfg, dlStatic, dlBox, dlAtCall>>
    /\ UNCHANGED notDlVars

\* a goroutine's downloadGTFSBundle returns; on an error the goroutine
\* returns and its deferred wg.Done() runs
DlDownload(i, o) ==
    /\ i \in DOMAIN dlTask
    /\ dlTask[i].pc = "download"
    /\ LET next == AfterDownload(o.ok)
       IN  /\ dlTask' = [dlTask EXCEPT ![i].pc = next, ![i].ok = o.ok,
                                       ![i].bundle = o.bundle]
           /\ dlWg' = IF next = "done" THEN dlWg - 1 ELSE dlWg
    /\ UNCHANGED <<dlServers, dlCfg, dlPc, dlNext, dlStatic, dlBox, dlAtCall>>
    /\ UNCHANGED notDlVars

\* a goroutine's storeGTFSBundle: the snapshot is stored, then the box if
\* it can be computed; then the deferred wg.Done()
DlStore(i) ==
    /\ i \in DOMAIN dlTask
    /\ dlTask[i].pc = "store"
    /\ LET serverID == dlTask[i].server
           r == ComputeBoundingBox(dlTask[i].bundle)
       IN  /\ dlStatic' = StaticPut(dlStatic, serverID, dlTask[i].bundle)
           /\ dlBox' = IF r[2] THEN BoundingBoxPut(dlBox, serverID, r[1]) ELSE dlBox
    /\ dlTask' = [dlTask EXCEPT ![i].pc = "done"]
    /\ dlWg' = dlWg - 1
    /\ UNCHANGED <<dlServers, dlCfg, dlPc, dlNext, dlAtCall>>
    /\ UNCHANGED notDlVars

\* wg.Wait() returns, and with it downloadGTFSBundles
DlReturn ==
    /\ dlPc = "wait"
    /\ WaitReturns(dlWg)
    /\ dlPc' = "select"
    /\ UNCHANGED <<dlServers, dlCfg, dlNext, dlWg, dlTask, dlStatic, dlBox, dlAtCall>>
    /\ UNCHANGED notDlVars

\* the config refresh loop installs a list: cfg.UpdateConfig(newServers)
DlUpdateConfig(newServers) ==
    /\ dlCfg' = newServers
    /\ UNCHANGED <<dlServers, dlPc, dlNext, dlWg, dlTask, dlStatic, dlBox, dlAtCall>>
    /\ UNCHANGED notDlVars

DownloadNext ==
    \/ DlCall
    \/ DlSpawn
    \/ \E i \in 1..Cardinality(StoreServers), o \in DownloadOutcomes : DlDownload(i, o)
    \/ \E i \in 1..Cardinality(StoreServers) : DlStore(i)
    \/ DlReturn
    \/ \E l \in DlLists : DlUpdateConfig(l)

(***************************************************************************)
(* Readiness: the target list between the config refresh that replaces it  *)
(* (refreshConfig, internal/config/config_loader.go), the scheduler's tick *)
(* that reads it (StartMetricsCollection) and healthcheckHandler           *)
(* (internal/app/handlers.go).                                             *)
(***************************************************************************)
\* What one load of the remote config meets.
ReadyOutcomes ==
    {[doErr |-> e, status |-> c, readOk |-> TRUE, body |-> b] :
        e \in BOOLEAN, c \in {200, 500}, b \in {BadJson} \cup DlLists}

NoPass == <<0>>
NoHealth == [code |-> 0, servers |-> 0, ready |-> FALSE]
NoReadyStep ==
    [op |-> "none", o |-> [doErr |-> FALSE, status |-> 0, readOk |-> FALSE, body |-> <<>>]]

\* healthcheckHandler: ready := numServers > 0
Ready_Always(numServers) == TRUE

Ready(numServers) == numServers > 0

\* healthcheckHandler: the status code, the servers field and the ready field
healthcheckHandler(servers) ==
    LET numServers == Len(servers)
        ready == Ready(numServers)
    IN  [code |-> IF ~ready THEN 500 ELSE 200, servers |-> numServers, ready |-> ready]

\* main has loaded a list that is not empty and installed it.
ReadyInit ==
    /\ rdyServers \in StartupLists
    /\ rdyPass = NoPass
    /\ rdyHealth = NoHealth
    /\ rdyLast = NoReadyStep

ReadyIdle ==
    /\ rdyServers = <<>>
    /\ rdyPass = NoPass
    /\ rdyHealth = NoHealth
    /\ rdyLast = NoReadyStep

\* one cycle of refreshConfig: load, and on success cfg.UpdateConfig(newServers)
ReadyRefresh(o) ==
    /\ LET r == loadConfigFromURL(o)
       IN  rdyServers' = IF r[2] THEN r[1] ELSE rdyServers
    /\ rdyLast' = [op |-> "load", o |-> o]
    /\ UNCHANGED <<rdyPass, rdyHealth>>
    /\ UNCHANGED notReadyVars

\* case <-ticker.C of StartMetricsCollection: GetServers(), then
\* CollectMetricsForServer for each server of the copy
ReadyTick ==
    /\ rdyPass' = rdyServers
    /\ rdyLast' = [NoReadyStep EXCEPT !.op = "tick"]
    /\ UNCHANGED <<rdyServers, rdyHealth>>
    /\ UNCHANGED notReadyVars

\* a request to /v1/healthcheck
ReadyHealthcheck ==
    /\ rdyHealth' = healthcheckHandler(rdyServers)
    /\ rdyLast' = [NoReadyStep EXCEPT !.op = "health"]
    /\ UNCHANGED <<rdyServers, rdyPass>>
    /\ UNCHANGED notReadyVars

ReadyNext ==
    \/ \E o \in ReadyOutcomes : ReadyRefresh(o)
    \/ ReadyTick
    \/ ReadyHealthcheck

(***************************************************************************)
(* The specifications.                                                     *)
(***************************************************************************)
InitRetry == RetryInit /\ SchedIdle /\ StoreIdle /\ BackoffIdle /\ TeleIdle /\ BoundsIdle /\ CacheIdle /\ LoopIdle /\ ConfigIdle /\ BundleIdle /\ FetchIdle /\ ClusterIdle /\ RefreshIdle /\ MatchIdle /\ GeoIdle /\ DownloadIdle /\ ReadyIdle
SpecRetry == InitRetry /\ [][RetryNext]_vars

InitSched == SchedInit /\ RetryIdle /\ StoreIdle /\ BackoffIdle /\ TeleIdle /\ BoundsIdle /\ CacheIdle /\ LoopIdle /\ ConfigIdle /\ BundleIdle /\ FetchIdle /\ ClusterIdle /\ RefreshIdle /\ MatchIdle /\ GeoIdle /\ DownloadIdle /\ ReadyIdle
SpecSched == InitSched /\ [][SchedNext]_vars

InitStore == StoreInit /\ RetryIdle /\ SchedIdle /\ BackoffIdle /\ TeleIdle /\ BoundsIdle /\ CacheIdle /\ LoopIdle /\ ConfigIdle /\ BundleIdle /\ FetchIdle /\ ClusterIdle /\ RefreshIdle /\ MatchIdle /\ GeoIdle /\ DownloadIdle /\ ReadyIdle
SpecStore == InitStore /\ [][StoreNext]_vars

InitBackoff == BackoffInit /\ RetryIdle /\ SchedIdle /\ StoreIdle /\ TeleIdle /\ BoundsIdle /\ CacheIdle /\ LoopIdle /\ ConfigIdle /\ BundleIdle /\ FetchIdle /\ ClusterIdle /\ RefreshIdle /\ MatchIdle /\ GeoIdle /\ DownloadIdle /\ ReadyIdle
SpecBackoff == InitBackoff /\ [][BackoffNext]_vars

InitTele == TeleInit /\ RetryIdle /\ SchedIdle /\ StoreIdle /\ BackoffIdle /\ BoundsIdle /\ CacheIdle /\ LoopIdle /\ ConfigIdle /\ BundleIdle /\ FetchIdle /\ ClusterIdle /\ RefreshIdle /\ MatchIdle /\ GeoIdle /\ DownloadIdle /\ ReadyIdle
SpecEvict == InitTele /\ [][EvictNext]_vars
SpecTelemetry == InitTele /\ [][TelemetryNext]_vars

InitBounds ==
    BoundsInit /\ RetryIdle /\ SchedIdle /\ StoreIdle /\ BackoffIdle /\ TeleIdle /\ CacheIdle /\ LoopIdle /\ ConfigIdle /\ BundleIdle /\ FetchIdle /\ ClusterIdle /\ RefreshIdle /\ MatchIdle /\ GeoIdle /\ DownloadIdle /\ ReadyIdle
SpecBounds == InitBounds /\ [][BoundsNext]_vars

InitCache ==
    CacheInit /\ RetryIdle /\ SchedIdle /\ StoreIdle /\ BackoffIdle /\ TeleIdle /\ BoundsIdle /\ LoopIdle /\ ConfigIdle /\ BundleIdle /\ FetchIdle /\ ClusterIdle /\ RefreshIdle /\ MatchIdle /\ GeoIdle /\ DownloadIdle /\ ReadyIdle
SpecCache == InitCache /\ [][CacheNext]_vars
SpecCacheFair == InitCache /\ [][CacheNext]_vars /\ CacheFairness

InitLoops ==
    LoopInit /\ RetryIdle /\ SchedIdle /\ StoreIdle /\ BackoffIdle /\ TeleIdle /\ BoundsIdle
    /\ CacheIdle /\ ConfigIdle /\ BundleIdle /\ FetchIdle /\ ClusterIdle /\ RefreshIdle /\ MatchIdle /\ GeoIdle /\ DownloadIdle /\ ReadyIdle
SpecLoops == InitLoops /\ [][LoopNext]_vars

InitConfig ==
    ConfigInit /\ RetryIdle /\ SchedIdle /\ StoreIdle /\ BackoffIdle /\ TeleIdle /\ BoundsIdle
    /\ CacheIdle /\ LoopIdle /\ BundleIdle /\ FetchIdle /\ ClusterIdle /\ RefreshIdle /\ MatchIdle /\ GeoIdle /\ DownloadIdle /\ ReadyIdle
SpecConfig == InitConfig /\ [][ConfigNext]_vars

InitBundle ==
    BundleInit /\ RetryIdle /\ SchedIdle /\ StoreIdle /\ BackoffIdle /\ TeleIdle /\ BoundsIdle
    /\ CacheIdle /\ LoopIdle /\ ConfigIdle /\ FetchIdle /\ ClusterIdle /\ RefreshIdle /\ MatchIdle /\ GeoIdle /\ DownloadIdle /\ ReadyIdle
SpecBundle == InitBundle /\ [][BundleNext]_vars

InitFetch ==
    FetchInit /\ RetryIdle /\ SchedIdle /\ StoreIdle /\ BackoffIdle /\ TeleIdle /\ BoundsIdle
    /\ CacheIdle /\ LoopIdle /\ ConfigIdle /\ BundleIdle /\ ClusterIdle /\ RefreshIdle /\ MatchIdle /\ GeoIdle /\ DownloadIdle /\ ReadyIdle
SpecFetch == InitFetch /\ [][FetchNext]_vars

InitCluster ==
    ClusterInit /\ RetryIdle /\ SchedIdle /\ StoreIdle /\ BackoffIdle /\ TeleIdle /\ BoundsIdle
    /\ CacheIdle /\ LoopIdle /\ ConfigIdle /\ BundleIdle /\ FetchIdle /\ RefreshIdle /\ MatchIdle /\ GeoIdle /\ DownloadIdle /\ ReadyIdle
SpecCluster == InitCluster /\ [][ClusterNext]_vars

InitRefresh ==
    RefreshInit /\ RetryIdle /\ SchedIdle /\ StoreIdle /\ BackoffIdle /\ TeleIdle /\ BoundsIdle
    /\ CacheIdle /\ LoopIdle /\ ConfigIdle /\ BundleIdle /\ FetchIdle /\ ClusterIdle /\ MatchIdle /\ GeoIdle /\ DownloadIdle /\ ReadyIdle
SpecRefresh == InitRefresh /\ [][RefreshNext]_vars

InitMatch ==
    MatchInit /\ RetryIdle /\ SchedIdle /\ StoreIdle /\ BackoffIdle /\ TeleIdle /\ BoundsIdle
    /\ CacheIdle /\ LoopIdle /\ ConfigIdle /\ BundleIdle /\ FetchIdle /\ ClusterIdle /\ RefreshIdle /\ GeoIdle /\ DownloadIdle /\ ReadyIdle
SpecMatch == InitMatch /\ [][MatchNext]_vars

InitGeo ==
    GeoInit /\ RetryIdle /\ SchedIdle /\ StoreIdle /\ BackoffIdle /\ TeleIdle /\ BoundsIdle
    /\ CacheIdle /\ LoopIdle /\ ConfigIdle /\ BundleIdle /\ FetchIdle /\ ClusterIdle /\ RefreshIdle /\ MatchIdle /\ DownloadIdle /\ ReadyIdle
SpecGeo == InitGeo /\ [][GeoNext]_vars

InitDownload ==
    DownloadInit /\ RetryIdle /\ SchedIdle /\ StoreIdle /\ BackoffIdle /\ TeleIdle /\ BoundsIdle
    /\ CacheIdle /\ LoopIdle /\ ConfigIdle /\ BundleIdle /\ FetchIdle /\ ClusterIdle /\ RefreshIdle
    /\ MatchIdle /\ GeoIdle /\ ReadyIdle
SpecDownload == InitDownload /\ [][DownloadNext]_vars

InitReady ==
    ReadyInit /\ RetryIdle /\ SchedIdle /\ StoreIdle /\ BackoffIdle /\ TeleIdle /\ BoundsIdle
    /\ CacheIdle /\ LoopIdle /\ ConfigIdle /\ BundleIdle /\ FetchIdle /\ ClusterIdle /\ RefreshIdle
    /\ MatchIdle /\ GeoIdle /\ DownloadIdle
SpecReady == InitReady /\ [][ReadyNext]_vars

(***************************************************************************)
(* Properties of the scheduler and the realtime store, under SpecSched.    *)
(***************************************************************************)
IsPrefix(p, q) == Len(p) <= Len(q) /\ \A i \in 1..Len(p) : p[i] = q[i]

Positions == DOMAIN ran

\* The pipeline for the server at position i of this pass has returned.
Finished(i) == idx = 0 \/ i < idx

\* C1: within a pass every target's pipeline runs as its own task, so no target
\* waits to start while another target's pipeline is running its steps; and
\* outside a pass (before the next tick is taken) no pipeline is running.
C1_TargetsRunIndependently ==
    /\ schedPc = "collect" =>
          \A i, j \in Positions :
             (i = idx /\ ran[i] # <<>>) => j <= idx
    /\ schedPc # "collect" => idx = 0

\* C2: for every target the steps run in the fixed order ping, bundle
\* expiration, agency coverage, REST metrics, realtime fetch, vehicle count,
\* telemetry, bounds, one after the other; unless the realtime fetch failed,
\* all eight run, whatever errors the other steps returned.
C2_FixedStepOrder ==
    \A i \in Positions :
       /\ IsPrefix(ran[i], AllSteps)
       /\ (schedPc = "collect" /\ i = idx) => Len(ran[i]) = StepIndex(stepPc) - 1
       /\ (schedPc = "collect" /\ i > idx) => ran[i] = <<>>
       /\ (Finished(i) /\ "rt" \notin errs[i]) => ran[i] = AllSteps

C2_Witness ==
    \E i \in Positions :
       /\ Finished(i)
       /\ errs[i] = {"other"}
       /\ ran[i] = AllSteps

\* C3: when the realtime fetch fails for a target, none of vehicle count,
\* telemetry and bounds runs for it in that pass, and every other target of the
\* pass still runs its whole pipeline (up to its own realtime fetch failing).
C3_RealtimeFailureShortCircuits ==
    /\ \A i \in Positions :
          "rt" \in errs[i] =>
             /\ Finished(i)
             /\ ran[i] = SubSeq(AllSteps, 1, StepIndex("rt"))
    /\ (schedPc # "collect") =>
          \A j \in Positions :
             ran[j] = IF "rt" \in errs[j]
                      THEN SubSeq(AllSteps, 1, StepIndex("rt"))
                      ELSE AllSteps

C3_Witness ==
    /\ schedPc = "select"
    /\ \E i, j \in Positions :
          /\ i < j
          /\ "rt" \in errs[i]
          /\ ran[i] = SubSeq(AllSteps, 1, StepIndex("rt"))
          /\ ran[j] = AllSteps

\* C4: the realtime store holds one snapshot per server: a read made for server
\* s returns the snapshot of s's own latest stored fetch, or nothing when no
\* fetch of s has been stored, and never another server's snapshot.
C4_OneSnapshotPerServer ==
    \A s \in Servers :
       RealtimeGet(s) = IF rtFetched[s] THEN Snapshot(s) ELSE NoSnapshot

(***************************************************************************)
(* Properties of the snapshot stores, under SpecStore.                     *)
(***************************************************************************)
KeyedKinds == {"static", "bbox", "telemetry"}

StoreKeys == KeysOf(storeKind)

\* What the latest completed Set of a key calls for Get to return.
Expected(key) ==
    IF key \in DOMAIN lastSet THEN <<lastSet[key], TRUE>> ELSE <<Zero, FALSE>>

\* C5: each keyed store is a map of independent registers: Get(key) returns
\* found = true with the value of the latest completed Set(key, .), found =
\* false when the key has no entry, and a Set of one key never changes what Get
\* returns for another key.
C5_GetReturnsLatestSet ==
    storeKind \in KeyedKinds =>
       \A g \in Goroutines :
          goroutine[g].pc = "get_done" => goroutine[g].ret = Expected(goroutine[g].key)

C5_SetFrame ==
    (storeKind \in KeyedKinds /\ lockWriter # 0) =>
       \A k \in StoreKeys \ {goroutine[lockWriter].key} :
          StoreGet(storeKind, storeData', k) = StoreGet(storeKind, storeData, k)

C5_IndependentRegisters == []C5_GetReturnsLatestSet /\ [][C5_SetFrame]_vars

C5_Witness ==
    /\ storeKind = "telemetry"
    /\ \E g \in Goroutines :
          /\ goroutine[g].pc = "get_done"
          /\ goroutine[g].ret = <<1, TRUE>>
          /\ \E k \in StoreKeys :
                /\ k # goroutine[g].key
                /\ k[1] = goroutine[g].key[1]
                /\ StoreGet(storeKind, storeData, k) = <<2, TRUE>>

\* C6: replacement is atomic under the reader/writer lock: a writer holds the
\* lock alone, readers share it, an entry is incomplete only while its writer
\* holds the lock, and no Get returns an incomplete entry: it returns the whole
\* value of a completed Set (or not-found).
C6_AtomicReplacement ==
    /\ lockWriter # 0 => lockReaders = {}
    /\ \A g \in Goroutines :
          /\ goroutine[g].pc \in {"set_locked", "set_writing"} <=> lockWriter = g
          /\ goroutine[g].pc \in {"get_locked", "get_done"} <=> g \in lockReaders
          /\ goroutine[g].pc = "get_done" =>
                /\ goroutine[g].ret[1] # Torn
                /\ goroutine[g].ret \in
                      {<<Zero, FALSE>>} \cup {<<v, TRUE>> : v \in StoreVals}
    /\ \A k \in StoreKeys :
          StoreGet(storeKind, storeData, k)[1] = Torn =>
             /\ lockWriter # 0
             /\ goroutine[lockWriter].pc = "set_writing"
             /\ goroutine[lockWriter].key = k

C6_Witness ==
    /\ Cardinality(lockReaders) >= 2
    /\ \E g \in lockReaders :
          /\ goroutine[g].pc = "get_done"
          /\ goroutine[g].ret[2]

(***************************************************************************)
(* Properties of DoWithBackoff, checked under SpecRetry.                   *)
(***************************************************************************)

\* C7: with maxRetries = k >= 1, a transport that fails on every attempt and a
\* context that is never cancelled, DoWithBackoff makes exactly k+1 attempts
\* and returns the retries-exhausted error wrapping the last transport failure.
C7_ExactlyKPlusOneAttempts ==
    /\ maxRetries >= 1 => calls <= maxRetries + 1
    /\ retErr = "exhausted" =>
          /\ maxRetries >= 1
          /\ calls = maxRetries + 1
          /\ retWrapped = calls
          /\ lastOutcome.kind = "err"
    /\ (maxRetries >= 1 /\ ~ctxDone /\ lastOutcome.kind = "err") =>
          /\ retryPc = "done" <=> calls = maxRetries + 1
          /\ retryPc = "done" => retErr = "exhausted"

C7_Witness ==
    /\ maxRetries = 2
    /\ ~ctxDone
    /\ retryPc = "done"
    /\ retErr = "exhausted"
    /\ calls = 3

\* C8: with maxRetries = 0 and a transport that always fails, DoWithBackoff keeps
\* retrying while the context is live and never returns the retries-exhausted
\* error; once the context is done while it waits between attempts, its next
\* step returns the context's error, and no further attempt is made.
C8_Inv ==
    maxRetries = 0 =>
       /\ retErr # "exhausted"
       /\ (~ctxDone /\ lastOutcome.kind # "resp") => retryPc # "done"
       /\ retryPc = "done" => retErr \in {"nil", "ctx"}
       /\ retErr = "ctx" => ctxDone

C8_Step ==
    (maxRetries = 0 /\ retryPc = "select" /\ ctxDone) =>
       /\ calls' = calls
       /\ retryPc' = "done"
       /\ retErr' = "ctx"

C8_RetriesUntilCancelled == []C8_Inv /\ [][C8_Step]_vars

C8_Witness ==
    /\ maxRetries = 0
    /\ calls >= 2
    /\ ~lastOutcome.ctxWasDone
    /\ retryPc = "done"
    /\ retErr = "ctx"

\* C9: a response with any status code, 2xx or not, is returned with a nil error
\* by the attempt that received it: no wait and no further attempt follows.
C9_ResponseReturnedAtOnce ==
    /\ lastOutcome.kind = "resp" =>
          /\ retryPc = "done"
          /\ retErr = "nil"
          /\ retResp = lastOutcome.status
    /\ retErr = "nil" => (lastOutcome.kind = "resp" /\ calls = retries + 1)

C9_Witness ==
    /\ retryPc = "done"
    /\ retErr = "nil"
    /\ retResp = 500
    /\ calls = 1

\* C10 as stated: whenever a failed attempt returns with the context already
\* done, DoWithBackoff makes no further attempt and returns the context's error.
C10_Original ==
    (lastOutcome.kind = "err" /\ lastOutcome.ctxWasDone) =>
       /\ retryPc # "attempt"
       /\ retryPc = "done" => retErr = "ctx"

\* C10 amended: that holds when the retry budget is not used up (maxRetries = 0
\* or retries < maxRetries); when the failed attempt is the last permitted one
\* the retries-exhausted error is returned instead.  In both cases no wait and
\* no further attempt follows.
C10_CancelledAtFailure ==
    (lastOutcome.kind = "err" /\ lastOutcome.ctxWasDone) =>
       /\ retryPc # "attempt"
       /\ calls = retries + 1
       /\ retryPc = "done" =>
             retErr = IF maxRetries > 0 /\ retries >= maxRetries
                      THEN "exhausted" ELSE "ctx"

C10_Witness ==
    /\ lastOutcome.kind = "err"
    /\ lastOutcome.ctxWasDone
    /\ calls >= 2
    /\ retryPc = "done"
    /\ retErr = "ctx"

(***************************************************************************)
(* Properties of the BackoffStore, under SpecBackoff.                      *)
(***************************************************************************)
Min(a, b) == IF a <= b THEN a ELSE b

\* C11 as stated: after N >= 1 consecutive UpdateBackoff calls for an id with
\* no ResetBackoff between them, the stored delay is min(base * 2^N, cap).
C11_Original ==
    \A id \in BackoffIds :
       consecutive[id] >= 1 =>
          /\ id \in DOMAIN backoffs
          /\ backoffs[id].BackoffDelay =
                Min(BASE_BACKOFF * BACKOFF_FACTOR ^ consecutive[id], MAX_BACKOFF)

\* C11 amended: the first of the N calls stores the base delay and each later
\* one doubles it, so the stored delay is min(base * 2^(N-1), cap).
C11_DelayAfterNUpdates ==
    \A id \in BackoffIds :
       consecutive[id] >= 1 =>
          /\ id \in DOMAIN backoffs
          /\ backoffs[id].BackoffDelay =
                Min(BASE_BACKOFF * BACKOFF_FACTOR ^ (consecutive[id] - 1), MAX_BACKOFF)

C11_Witness ==
    \E id, other \in BackoffIds :
       /\ consecutive[id] = 8
       /\ backoffs[id].BackoffDelay = MAX_BACKOFF
       /\ consecutive[other] = 3
       /\ backoffs[other].BackoffDelay = 4 * BASE_BACKOFF

\* C12: for every id the stored delay is never above the cap, and a step that
\* keeps the id's entry (any call but ResetBackoff of it) never lowers its delay.
C12_Inv ==
    \A id \in DOMAIN backoffs :
       /\ backoffs[id].BackoffDelay <= MAX_BACKOFF
       /\ backoffs[id].BackoffDelay >= BASE_BACKOFF

C12_Step ==
    \A id \in DOMAIN backoffs \cap DOMAIN backoffs' :
       backoffs'[id].BackoffDelay >= backoffs[id].BackoffDelay

C12_DelayMonotoneAndCapped == []C12_Inv /\ [][C12_Step]_vars

C12_Witness ==
    \E id \in DOMAIN backoffs :
       /\ consecutive[id] = 9
       /\ ~wasReset[id]
       /\ backoffs[id].BackoffDelay = MAX_BACKOFF

\* C13: ResetBackoff(id) fully clears id: from the reset until the next
\* UpdateBackoff(id), NextRetryAt(id) reports not-found, as for an id never
\* updated; the first UpdateBackoff after it stores the base delay; and the
\* step that removes id's entry changes no other id's entry.
C13_Inv ==
    \A id \in BackoffIds :
       /\ consecutive[id] = 0 <=> NextRetryAt(id) = <<ZeroTime, FALSE>>
       /\ consecutive[id] = 0 <=> id \notin DOMAIN backoffs
       /\ consecutive[id] = 1 => backoffs[id].BackoffDelay = BASE_BACKOFF

C13_Step ==
    \A id \in BackoffIds :
       (consecutive[id] > 0 /\ consecutive'[id] = 0) =>
          /\ NextRetryAt(id)' = <<ZeroTime, FALSE>>
          /\ \A other \in BackoffIds \ {id} :
                /\ NextRetryAt(other)' = NextRetryAt(other)
                /\ other \in DOMAIN backoffs => backoffs'[other] = backoffs[other]

C13_ResetFullyClears == []C13_Inv /\ [][C13_Step]_vars

C13_Witness ==
    \E id, other \in BackoffIds :
       /\ wasReset[id]
       /\ consecutive[id] = 1
       /\ backoffs[id].BackoffDelay = BASE_BACKOFF
       /\ ~wasReset[other]
       /\ consecutive[other] = 4
       /\ backoffs[other].BackoffDelay = 8 * BASE_BACKOFF

\* An UpdateBackoff(id) step, seen from the state: id's count of calls grows.
IsUpdateOf(id) == consecutive'[id] = consecutive[id] + 1

\* The next-allowed time an UpdateBackoff at time t with resulting delay d may
\* set: between t + min(d, cap) and t + min(1.5 d, cap).
C14_InWindow(id) ==
    LET d == backoffs'[id].BackoffDelay
        t == wallClock
        at == backoffs'[id].NextRetryAt
    IN  /\ at >= t + Min(d, MAX_BACKOFF)
        /\ 2 * at <= 2 * t + Min(3 * d, 2 * MAX_BACKOFF)
        /\ NextRetryAt(id)' = <<at, TRUE>>

\* C14 as stated: every UpdateBackoff sets the next-allowed time within that
\* window, and each further UpdateBackoff moves it later than it was.
C14_OriginalStep ==
    \A id \in BackoffIds :
       IsUpdateOf(id) =>
          /\ C14_InWindow(id)
          /\ id \in DOMAIN backoffs =>
                backoffs'[id].NextRetryAt > backoffs[id].NextRetryAt

C14_Original == [][C14_OriginalStep]_vars

\* C14 amended: the window holds; with a wall clock whose readings do not
\* decrease, a further UpdateBackoff moves the next-allowed time strictly later
\* while the delay held before the call is below the cap, and never earlier
\* once the delay is at the cap (then it is the time of the call plus the cap).
C14_AmendedStep ==
    \A id \in BackoffIds :
       IsUpdateOf(id) =>
          /\ C14_InWindow(id)
          /\ id \in DOMAIN backoffs =>
                IF backoffs[id].BackoffDelay < MAX_BACKOFF
                THEN backoffs'[id].NextRetryAt > backoffs[id].NextRetryAt
                ELSE /\ backoffs'[id].NextRetryAt >= backoffs[id].NextRetryAt
                     /\ backoffs'[id].NextRetryAt = wallClock + MAX_BACKOFF

C14_NextRetryAtWindow == [][C14_AmendedStep]_vars

C14_Witness ==
    \E id, other \in BackoffIds :
       /\ consecutive[id] = 9
       /\ backoffs[id].NextRetryAt = wallClock + MAX_BACKOFF
       /\ consecutive[other] = 4
       /\ backoffs[other].NextRetryAt > wallClock + backoffs[other].BackoffDelay

(***************************************************************************)
(* Properties of the eviction sweep and of the exposed vehicle series,     *)
(* under SpecEvict.                                                        *)
(***************************************************************************)
HasRecord(data, sid, vid) == VehicleLastSeenGet(data, sid, vid)[2]
RecordOf(data, sid, vid) == VehicleLastSeenGet(data, sid, vid)[1]

\* C15: a sweep with threshold th run at time now removes every record last
\* seen more than th before now, keeps every record last seen within th of now
\* as it was, adds none, leaves no empty per-server map, and afterwards
\* Count(server) is the number of that server's records it kept.
C15_SweepStep ==
    lastSweep' # NoSweep =>
       LET now == lastSweep'.now
           th == lastSweep'.threshold
           keptOf(sid) == {vid \in Vehicles :
                             /\ HasRecord(vStore, sid, vid)
                             /\ now - RecordOf(vStore, sid, vid).Time <= th}
       IN  /\ \A sid \in TeleServers, vid \in Vehicles :
                 IF vid \in keptOf(sid)
                 THEN /\ HasRecord(vStore', sid, vid)
                      /\ RecordOf(vStore', sid, vid) = RecordOf(vStore, sid, vid)
                 ELSE ~HasRecord(vStore', sid, vid)
           /\ \A sid \in TeleServers :
                 /\ sid \in DOMAIN vStore' <=> keptOf(sid) # {}
                 /\ VehicleLastSeenCount(vStore', sid) = Cardinality(keptOf(sid))

C15_SweepEvictsStale == [][C15_SweepStep]_vars

C15_Witness ==
    /\ lastSweep = [now |-> 2, threshold |-> 1]
    /\ \E gone, held \in TeleServers :
          /\ gone \notin DOMAIN vStore
          /\ \E vid \in Vehicles : <<vid, gone>> \in exposed
          /\ VehicleLastSeenCount(vStore, held) = 1
          /\ \E vid \in Vehicles : /\ HasRecord(vStore, held, vid)
                                   /\ RecordOf(vStore, held, vid).Time = 1
          /\ \A vid \in Vehicles : <<vid, held>> \in exposed

\* C16: the vehicle ids of the series exposed for a server are vehicles that
\* have a TelemetryRecord for it or appear in its latest realtime feed: once
\* the sweep removes a vehicle's record, its series are exposed no longer.
C16_ExposedBoundedByFleet ==
    \A pair \in exposed :
       \/ HasRecord(vStore, pair[2], pair[1])
       \/ pair[1] \in feedIds[pair[2]]

(***************************************************************************)
(* Properties of the telemetry pass, under SpecTelemetry.                  *)
(***************************************************************************)

\* The observation time of the feed vehicle the latest iteration handled.
SeenAt(vehicle) == IF vehicle.ts # NoTimestamp THEN vehicle.ts ELSE teleNow

\* C17 as stated: an iteration for a vehicle with an id and a position
\* publishes the speed distance / elapsed seconds whenever a prior record of
\* the vehicle exists, no speed when none exists, and a discrepancy ratio
\* exactly when a prior record exists and the self-reported speed is above 0.
C17_OriginalStep ==
    (lastIter'.done /\ ~lastIter'.skipped) =>
       LET v == lastIter'.vehicle
           ok == HasRecord(vStore, teleServer, v.id)
           prev == RecordOf(vStore, teleServer, v.id)
       IN  /\ ok => lastIter'.speed =
                      <<HaversineDistance(prev.Pos, v.pos), SeenAt(v) - prev.Time>>
           /\ ~ok => lastIter'.speed = NotPublished
           /\ lastIter'.ratio # NotPublished <=>
                 (ok /\ v.speed # NoSpeed /\ v.speed > 0)

C17_Original == [][C17_OriginalStep]_vars

\* C17 amended: the speed is published exactly when a prior record exists and
\* the elapsed time from it to the new observation is above 0 seconds; the
\* ratio |computed - reported| / reported is published exactly when moreover
\* the self-reported speed is above 0.  A vehicle without id or position
\* publishes nothing.
C17_AmendedStep ==
    lastIter'.done =>
       LET v == lastIter'.vehicle
           ok == HasRecord(vStore, teleServer, v.id)
           prev == RecordOf(vStore, teleServer, v.id)
           elapsed == SeenAt(v) - prev.Time
           dist == HaversineDistance(prev.Pos, v.pos)
           diff == dist - v.speed * elapsed
       IN  IF lastIter'.skipped
           THEN /\ v.id \in {NilId, EmptyId} \/ v.pos = NoPosition
                /\ lastIter'.speed = NotPublished
                /\ lastIter'.ratio = NotPublished
           ELSE /\ lastIter'.speed =
                      IF ok /\ elapsed > 0 THEN <<dist, elapsed>> ELSE NotPublished
                /\ lastIter'.ratio =
                      IF ok /\ elapsed > 0 /\ v.speed # NoSpeed /\ v.speed > 0
                      THEN <<IF diff >= 0 THEN diff ELSE -diff, v.speed * elapsed>>
                      ELSE NotPublished

C17_SpeedPublishedWhenElapsed == [][C17_AmendedStep]_vars

C17_Witness ==
    /\ lastIter.done
    /\ lastIter.ok
    /\ lastIter.vehicle.speed = 2
    /\ lastIter.speed = <<1, 2>>
    /\ lastIter.ratio = <<3, 4>>

(***************************************************************************)
(* Properties of the validity and bounds pass, under SpecBounds.           *)
(***************************************************************************)

\* The feed vehicle has both coordinates.
HasCoordinates(v) == v.position # NilPosition /\ v.lat # NilCoord /\ v.lon # NilCoord

\* Its coordinates are valid: in range, and not the point (0, 0).
HasValidCoordinates(v) ==
    /\ HasCoordinates(v)
    /\ -90 <= v.lat /\ v.lat <= 90
    /\ -180 <= v.lon /\ v.lon <= 180
    /\ ~(v.lat = 0 /\ v.lon = 0)

OutsideBox(v, b) ==
    v.lat < b.MinLat \/ v.lat > b.MaxLat \/ v.lon < b.MinLon \/ v.lon > b.MaxLon

Cached == cache # NilCache

\* The step in which request g is answered.
Answers(g) == request[g].pc = "locked" /\ request'[g].served

\* C19: a request answered while a buffer is cached gets exactly that buffer
\* and the serializer is not invoked for it; the serializer is invoked for a
\* request only when no buffer is cached, and that request gets the text just
\* serialized.
C19_Step ==
    \A g \in Goroutines :
       Answers(g) =>
          IF Cached
          THEN /\ request'[g].resp = cache
               /\ ~request'[g].serialized
          ELSE /\ request'[g].serialized
               /\ request'[g].resp = Serialize(metricsVersion)

C19_ServedFromCache == [][C19_Step]_vars

C19_Witness ==
    \E g, h \in Goroutines :
       /\ request[g].served /\ request[g].serialized
       /\ request[h].served /\ ~request[h].serialized
       /\ request[h].resp = Serialize(1)

\* The complete serializations.
Texts == {Serialize(v) : v \in 0..MaxVersion}

\* C20, safety: the refresh loop stores only a complete serialization made
\* after the tick it took; the cache is incomplete only while the loop holds
\* the lock, and no request is answered with an incomplete buffer; once a
\* buffer is cached every later request is answered from the cache.
C20_Inv ==
    /\ cache \in {NilCache, TornCache} \cup Texts
    /\ cache = TornCache <=> cacheWriter
    /\ cacheWriter => cacheReaders = {}
    /\ cacheWriter <=> refreshPc = "store"
    /\ \A g \in Goroutines : request[g].served => request[g].resp \in Texts

C20_Step ==
    /\ (refreshPc = "store" /\ refreshPc' = "select") =>
          /\ cache' = refreshBuf
          /\ cache' \in Texts
    /\ (refreshPc = "gather" /\ refreshPc' = "lock") =>
          refreshBuf' = Serialize(metricsVersion)
    /\ Cached => Cached'
    /\ \A g \in Goroutines :
          (Answers(g) /\ Cached) => /\ request'[g].resp = cache
                                    /\ ~request'[g].serialized

\* C20, liveness: under fair scheduling, unless the context is cancelled, a
\* complete buffer is eventually cached.
C20_EventuallyCached == <>(cacheCtxDone \/ cache \in Texts)

AtWaitPoint(l) == loopPc[l] \in {"select", "sleep"}

\* C21: once the context is cancelled, a loop at a wait point leaves it only
\* by terminating: it starts no new work and does not wait out what is left
\* of its timer interval.
C21_Step ==
    \A l \in Loops :
       (loopCtxDone /\ AtWaitPoint(l)) =>
          /\ loopPc'[l] \in {loopPc[l], "stopped"}
          /\ (l \in SleepLoops => sleepLeft' = sleepLeft)

C21_LoopsHonourCancellation == [][C21_Step]_vars

(***************************************************************************)
(* The target list, under SpecConfig.                                      *)
(***************************************************************************)

\* C22: every read of the target list returns a complete list, the one stored
\* at the moment of the read; the pass that follows the scheduler's read
\* processes exactly the elements of that copy, in order, whatever
\* UpdateConfig stores meanwhile.
C22_Inv ==
    /\ cfgSrv = TornList <=> cfgWriter
    /\ cfgWriter => cfgReaders = {}
    /\ \A g \in CfgCallers : rdList[g] \in TargetLists
    /\ IsPrefix(rdSeen["scheduler"], rdList["scheduler"])
    /\ rdPc["scheduler"] = "idle" => rdSeen["scheduler"] = rdList["scheduler"]

C22_Step ==
    \A g \in CfgCallers :
       /\ (rdPc[g] = "rlocked" /\ rdPc'[g] # "rlocked") =>
             /\ cfgSrv \in TargetLists
             /\ rdList'[g] = cfgSrv
       /\ rdPc[g] = "pass" =>
             /\ rdList'[g] = rdList[g]
             /\ rdSeen'[g] \in {rdSeen[g],
                                Append(rdSeen[g], rdList[g][Len(rdSeen[g]) + 1])}

C22_ListReplacedAtomically == []C22_Inv /\ [][C22_Step]_vars

C22_Witness ==
    /\ rdPc["scheduler"] = "idle"
    /\ Len(rdList["scheduler"]) = 2
    /\ rdSeen["scheduler"] = rdList["scheduler"]
    /\ cfgSrv \in TargetLists
    /\ cfgSrv # rdList["scheduler"]
    /\ rdList["handler"] = cfgSrv
    /\ Len(cfgSrv) = 1

(***************************************************************************)
(* Bounding box and static snapshot, under SpecBundle.                     *)
(***************************************************************************)

\* A store for server s is in progress.
StoreRunning(s) == \E t \in BundleTasks : bundleTask[t].pc = "box" /\ bundleTask[t].server = s

\* C23: whenever no store for s is in progress, the box stored for s is the
\* box computed from the stops of the snapshot stored for s (and none is
\* stored when no snapshot is, or when its stops give no box).
C23_BoxMatchesSnapshot ==
    \A s \in StoreServers :
       ~StoreRunning(s) =>
          IF s \in DOMAIN bundleStatic /\ ComputeBoundingBox(bundleStatic[s])[2]
          THEN /\ s \in DOMAIN bundleBox
               /\ bundleBox[s] = ComputeBoundingBox(bundleStatic[s])[1]
          ELSE s \notin DOMAIN bundleBox

(***************************************************************************)
(* The realtime fetch, under SpecFetch.                                    *)
(***************************************************************************)

\* C24: a fetch whose response has a non-2xx status or a body that does not
\* parse returns an error after its single request and leaves the stored
\* realtime snapshot as it was.
C24_MalformedResponseIsError ==
    (/\ fetchLast.called
     /\ fetchLast.urlOk
     /\ fetchLast.outcome.kind = "resp"
     /\ \/ fetchLast.outcome.status < 200
        \/ fetchLast.outcome.status > 299
        \/ ~ParseRealtime(fetchLast.outcome.body)[2])
    => /\ ~fetchLast.ok
       /\ fetchLast.calls = 1
       /\ rtData = fetchLast.before

(***************************************************************************)
(* Stop clustering, under SpecCluster.                                     *)
(***************************************************************************)

\* The type of the root of the stop's parent chain, and the root's id.
RootType(stop) == stop.Ancestors[Len(stop.Ancestors)]
RootId(stop) == AncestorId(Len(stop.Ancestors))

\* C25: a type-0 stop whose chain is rooted at a station clusters by the
\* root's id; with no parent and valid coordinates it gets an S2 id; in every
\* other case (missing or invalid coordinates, chain rooted elsewhere) it is
\* not clusterable.
C25_StopClusters ==
    (clCalls > 0 /\ clStop.Type = 0) =>
       IF HasParent(clStop) /\ RootType(clStop) = 1
       THEN clResult = StationCluster(RootId(clStop))
       ELSE IF /\ ~HasParent(clStop)
               /\ HasLatLon(clStop)
               /\ IsValidLatLon(clStop.Latitude, clStop.Longitude)
       THEN /\ clResult.ok
            /\ clResult.clusterType = "s2"
            /\ clResult.clusterID = s2ClusterID(clStop.Latitude, clStop.Longitude)
       ELSE clResult = NotClusterable

\* C26: a station clusters by its own id; an entrance or node clusters by its
\* parent's id exactly when the direct parent is a station; a repeated call
\* with the same stop returns the same result.
C26_StationAndEntranceClusters ==
    /\ (clCalls > 0 /\ clStop.Type = 1) => clResult = StationCluster(StopId)
    /\ (clCalls > 0 /\ clStop.Type \in {2, 3}) =>
          IF HasParent(clStop) /\ clStop.Ancestors[1] = 1
          THEN clResult = StationCluster(AncestorId(1))
          ELSE clResult = NotClusterable
    /\ clCalls > 1 => clResult = clPrev

C26_Witness ==
    /\ clCalls = 2
    /\ clStop.Type = 3
    /\ Len(clStop.Ancestors) = 2
    /\ clStop.Ancestors[1] = 0
    /\ clStop.Ancestors[2] = 1
    /\ clResult = NotClusterable

\* C27: a boarding area is clusterable only under a type-0 parent: by the
\* grandparent's id when the grandparent is a station, by an S2 id of its own
\* coordinates when the parent has no parent and the coordinates are present,
\* and not otherwise.
C27_BoardingAreaClusters ==
    (clCalls > 0 /\ clStop.Type = 4) =>
       IF ~HasParent(clStop) \/ clStop.Ancestors[1] # 0
       THEN clResult = NotClusterable
       ELSE IF Len(clStop.Ancestors) >= 2
       THEN IF clStop.Ancestors[2] = 1
            THEN clResult = StationCluster(AncestorId(2))
            ELSE clResult = NotClusterable
       ELSE IF HasLatLon(clStop)
       THEN /\ clResult.ok
            /\ clResult.clusterType = "s2"
            /\ clResult.clusterID = s2ClusterID(clStop.Latitude, clStop.Longitude)
       ELSE clResult = NotClusterable

C27_Witness ==
    /\ clCalls > 0
    /\ clStop.Type = 4
    /\ clStop.Ancestors = <<0>>
    /\ HasLatLon(clStop)
    /\ clResult.clusterType = "s2"

(***************************************************************************)
(* The config refresh cycle, under SpecRefresh.                            *)
(***************************************************************************)

\* The load met no transport error, status 200, a readable body, valid JSON.
LoadSucceeds(o) == ~o.doErr /\ o.status = 200 /\ o.readOk /\ o.body # BadJson

\* C28: a cycle whose load succeeds replaces the target list by the loaded
\* list; a cycle whose load fails leaves the list as it was; either way the
\* loop goes on to its sleep and the next cycle, and nothing else changes the
\* list.
C28_Step ==
    /\ (rcPc = "load" /\ rcPc' # "load") =>
          /\ rcPc' = "sleep"
          /\ rcLast'.called
          /\ IF LoadSucceeds(rcLast'.outcome)
             THEN rcServers' = rcLast'.outcome.body
             ELSE rcServers' = rcServers
    /\ rcPc # "load" => rcServers' = rcServers
    /\ (rcPc = "sleep" /\ rcPc' # "sleep") => rcPc' = "select"
    /\ (rcPc = "select" /\ ~rcCtxDone /\ rcPc' # "select") => rcPc' = "load"

C28_RefreshReplacesOrKeeps == [][C28_Step]_vars

C28_Witness ==
    /\ rcPc = "sleep"
    /\ rcLast.called
    /\ ~rcLast.outcome.doErr
    /\ rcLast.outcome.status = 500
    /\ rcLast.outcome.readOk
    /\ rcLast.outcome.body \in TargetLists
    /\ rcLast.outcome.body # rcServers
    /\ rcServers = rcLast.before
    /\ Len(rcServers) = 2

(***************************************************************************)
(* The tracked-vehicles gauge, under SpecEvict.                            *)
(***************************************************************************)

\* C29: a pass for server s leaves the tracked-vehicles gauge of s equal to
\* the number of vehicles the telemetry store holds for s: so it is after the
\* pass's loop, and whenever a step changes the gauge (only a pass does).
C29_Step ==
    \A s \in TeleServers :
       (\/ trackedGauge'[s] # trackedGauge[s]
        \/ (telePc = "loop" /\ telePc' = "idle" /\ teleServer = s))
       => trackedGauge'[s] = VehicleLastSeenCount(vStore', s)

C29_GaugeEqualsStoreCount == [][C29_Step]_vars

(***************************************************************************)
(* Properties of the match gauges, under SpecMatch.                        *)
(***************************************************************************)
\* matchLast' names the step taken: every step writes it, and a step that
\* leaves it as it was has repeated the last check and changed nothing
AgenciesChecked(s) == matchLast'.op = "agencies" /\ matchLast'.server = s
VehiclesChecked(s) == matchLast'.op = "vehicles" /\ matchLast'.server = s
Reported(o) == IF o = ApiNil THEN 0 ELSE o
Listed(o) == o \in 0..MaxCount

\* C30 as stated: after a check for which both numbers exist (the server has
\* a snapshot and the endpoint answered with a list), the agency-coverage
\* gauge is 1 if the snapshot's agencies and the endpoint's agencies are equal
\* in number and 0 if not, and the vehicle-count gauge is 1 if the feed's
\* vehicles and the API's vehicles are equal in number and 0 if not.
C30_AsStated_Step ==
    \A s \in StoreServers :
       /\ (AgenciesChecked(s) /\ matchLast'.held # NoBundle /\ Listed(matchLast'.api))
          => agenciesMatch'[s] = (IF matchLast'.held = matchLast'.api THEN 1 ELSE 0)
       /\ (VehiclesChecked(s) /\ Listed(matchLast'.api))
          => vehicleCountMatch'[s] = (IF matchLast'.held = matchLast'.api THEN 1 ELSE 0)

C30_AsStated == [][C30_AsStated_Step]_vars

\* C30 (amended): an agency-coverage check that finds a snapshot with at least
\* one agency and whose endpoint call returns no error sets the gauge to 1 if
\* the two numbers are equal and to 0 if not (a nil response counts as zero
\* agencies); a check that finds no snapshot or a snapshot without agencies,
\* or whose call fails, leaves the gauge as it was.  A vehicle-count check
\* whose API call returns no error sets its gauge to 1 if the feed's vehicles
\* and the API's vehicles are equal in number and to 0 if not (a nil response
\* counts as zero vehicles); a failed call leaves the gauge as it was.  No
\* other step changes a gauge, and no check changes another server's gauge.
C30_Step ==
    \A s \in StoreServers :
       /\ AgenciesChecked(s) =>
             IF matchLast'.held >= 1 /\ matchLast'.api # ApiError
             THEN agenciesMatch'[s] =
                     (IF matchLast'.held = Reported(matchLast'.api) THEN 1 ELSE 0)
             ELSE agenciesMatch'[s] = agenciesMatch[s]
       /\ VehiclesChecked(s) =>
             IF matchLast'.api # ApiError
             THEN vehicleCountMatch'[s] =
                     (IF matchLast'.held = Reported(matchLast'.api) THEN 1 ELSE 0)
             ELSE vehicleCountMatch'[s] = vehicleCountMatch[s]
       /\ ~AgenciesChecked(s) => agenciesMatch'[s] = agenciesMatch[s]
       /\ ~VehiclesChecked(s) => vehicleCountMatch'[s] = vehicleCountMatch[s]

C30_MatchGauges == [][C30_Step]_vars

\* one server's checks have found equal agency numbers and unequal vehicle
\* numbers, the other server's the opposite, and the last check, of a bundle
\* without agencies against an endpoint that lists none, has left the other
\* server's gauge at 0
C30_Witness ==
    \E s \in StoreServers, t \in StoreServers :
       /\ s # t
       /\ agenciesMatch[s] = 1 /\ vehicleCountMatch[s] = 0
       /\ agenciesMatch[t] = 0 /\ vehicleCountMatch[t] = 1
       /\ matchLast = [op |-> "agencies", server |-> t, held |-> 0, api |-> 0]

(***************************************************************************)
(* Properties of the geo package's functions, under SpecGeo.               *)
(***************************************************************************)
\* x is a number of the closed interval [a, b]
Within(x, a, b) == x # NaN /\ a <= x /\ x <= b

\* C31: IsValidLatLon(lat, lon) returns true exactly when lat is in
\* [-90, 90], lon is in [-180, 180] and (lat, lon) is not (0, 0); the edges of
\* the ranges and points with one zero coordinate are valid.
C31_ValidExactlyInRange ==
    geoCall.fn = "IsValidLatLon" =>
       (geoCall.ret <=> /\ Within(geoCall.lat, -90, 90)
                        /\ Within(geoCall.lon, -180, 180)
                        /\ ~(geoCall.lat = 0 /\ geoCall.lon = 0))

StopHasLatLon(st) == st.lat # NilCoord /\ st.lon # NilCoord

PassStarts == tickPending /\ ~tickPending'
StepStarts == schedPc = "collect" /\ ran' # ran

\* C33: once the context is cancelled the scheduler starts no new pass, also
\* when a tick is pending at that moment, and starts no further pipeline step
\* of a pass in progress.
C33_Step == schedCtxDone => ~PassStarts /\ ~StepStarts

C33_CancellationBetweenSteps == [][C33_Step]_vars

\* the parts of C33 taken one at a time
C33_NoPassAfterCancel == [][schedCtxDone => ~PassStarts]_vars
C33_NoStepAfterCancel == [][schedCtxDone => ~StepStarts]_vars

(***************************************************************************)
(* Properties of downloadGTFSBundles and the bundle loop, under            *)
(* SpecDownload.                                                           *)
(***************************************************************************)
\* the two stores hold the same for server s, or both nothing
SameEntry(a, b, s) ==
    /\ s \in DOMAIN a <=> s \in DOMAIN b
    /\ s \in DOMAIN a => a[s] = b[s]

\* a call of downloadGTFSBundles has returned
DlReturned == dlPc = "select" /\ Len(dlTask) > 0

\* C34: when downloadGTFSBundles has returned, one goroutine was started for
\* every element of its list (and no other) and every one of them has
\* finished; until then the caller is not past wg.Wait(); for a server whose
\* download failed both stores hold what they held when the call began; for a
\* server whose download succeeded the static store holds the new bundle and
\* the box store holds the new bundle's box, if that box can be computed.
C34_OneTaskPerServer ==
    /\ dlPc \in {"spawn", "wait"} =>
          dlWg = Cardinality({i \in DOMAIN dlTask : dlTask[i].pc \in {"download", "store"}})
    /\ DlReturned =>
          /\ Len(dlTask) = Len(dlServers)
          /\ \A i \in DOMAIN dlTask :
                LET t == dlTask[i]
                    r == ComputeBoundingBox(t.bundle)
                IN  /\ t.server = dlServers[i]
                    /\ t.pc = "done"
                    /\ ~t.ok => /\ SameEntry(dlStatic, dlAtCall[1], t.server)
                                /\ SameEntry(dlBox, dlAtCall[2], t.server)
                    /\ t.ok => /\ t.server \in DOMAIN dlStatic
                               /\ dlStatic[t.server] = t.bundle
                               /\ r[2] => /\ t.server \in DOMAIN dlBox
                                          /\ dlBox[t.server] = r[1]

\* a call for two servers has returned: the first server's download failed
\* and its snapshot and box of an earlier call are still stored, the second
\* server's download replaced its earlier snapshot and box
C34_Witness ==
    /\ DlReturned
    /\ Len(dlTask) = 2
    /\ ~dlTask[1].ok /\ dlTask[2].ok
    /\ dlTask[1].server \in DOMAIN dlStatic /\ dlTask[1].server \in DOMAIN dlBox
    /\ dlTask[2].server \in DOMAIN dlAtCall[2]
    /\ dlAtCall[2][dlTask[2].server] # dlBox[dlTask[2].server]
    /\ dlAtCall[1][dlTask[2].server] # dlStatic[dlTask[2].server]

(***************************************************************************)
(* The realtime snapshot the later steps read, under SpecSched.            *)
(***************************************************************************)
ReadsRealtime(step) == step \in {"vcount", "telemetry", "bounds"}

\* the fetch of the target at position i of this pass has run and succeeded
FetchedInPass(i) ==
    /\ \E k \in 1..Len(ran[i]) : ran[i][k] = "rt"
    /\ "rt" \notin errs[i]

\* C35: while the scheduler is at a vehicle-count, telemetry or bounds step
\* of target T, T's fetch has succeeded earlier in the same pass and the
\* realtime store holds T's snapshot; and the store is written by nothing but
\* the fetch step of the target being collected.
C35_Inv ==
    (schedPc = "collect" /\ ReadsRealtime(stepPc)) =>
       /\ FetchedInPass(idx)
       /\ RealtimeGet(passServers[idx]) = Snapshot(passServers[idx])

C35_Step ==
    rtStore' # rtStore =>
       /\ schedPc = "collect" /\ stepPc = "rt"
       /\ rtStore' = Snapshot(passServers[idx])

C35_StepsReadOwnSnapshot == []C35_Inv /\ [][C35_Step]_vars

\* the second target of a pass is at its bounds step, after the first
\* target's fetch stored another snapshot in the same pass
C35_Witness ==
    /\ schedPc = "collect" /\ stepPc = "bounds" /\ idx = 2
    /\ FetchedInPass(1)
    /\ passServers[1] # passServers[2]
    /\ rtStore = Snapshot(passServers[2])

ListedIn(q) == {q[i] : i \in 1..Len(q)}

\* C36: the bundle loop downloads for the list loaded at startup whatever
\* list the config holds: every goroutine of every call is for a server of
\* the startup list, and only servers of the startup list ever have a
\* snapshot or a bounding box, so a server that a config refresh adds has
\* neither.
C36_StartupListOnly ==
    /\ \A i \in DOMAIN dlTask : dlTask[i].server \in ListedIn(dlServers)
    /\ Len(dlTask) \in {0, Len(dlServers)}
    /\ DOMAIN dlStatic \subseteq ListedIn(dlServers)
    /\ DOMAIN dlBox \subseteq ListedIn(dlServers)

\* the config holds a server the startup list lacks, a call of the bundle
\* loop has returned with every download succeeded, and that server has no
\* snapshot and no box
C36_Witness ==
    /\ DlReturned
    /\ dlAtCall[1] # <<>>
    /\ \A i \in DOMAIN dlTask : dlTask[i].ok
    /\ \E s \in ListedIn(dlCfg) \ ListedIn(dlServers) :
          s \notin DOMAIN dlStatic /\ s \notin DOMAIN dlBox

(***************************************************************************)
(* Properties of readiness, under SpecReady.                               *)
(***************************************************************************)
\* C37: a refresh whose load succeeds with an empty list installs the empty
\* list; only a refresh whose load succeeds changes the list, so the list
\* stays empty until a refresh installs a list that is not empty; a tick
\* that finds the list empty collects no target; and a health check answers
\* 500 and not ready exactly when the list is empty.
C37_Step ==
    /\ (rdyLast'.op = "load" /\ LoadSucceeds(rdyLast'.o)) => rdyServers' = rdyLast'.o.body
    /\ ~(rdyLast'.op = "load" /\ LoadSucceeds(rdyLast'.o)) => rdyServers' = rdyServers
    /\ rdyLast'.op = "tick" => rdyPass' = rdyServers
    /\ rdyLast'.op = "health" =>
          /\ rdyHealth'.servers = Len(rdyServers)
          /\ rdyServers = <<>> => rdyHealth'.code = 500 /\ ~rdyHealth'.ready
          /\ rdyServers # <<>> => rdyHealth'.code = 200 /\ rdyHealth'.ready

C37_EmptyListNotReady == [][C37_Step]_vars

\* after a refresh installed the empty list, a tick has collected nothing
\* and the health check has answered 500
C37_Witness ==
    /\ rdyServers = <<>>
    /\ rdyPass = <<>>
    /\ rdyHealth = [code |-> 500, servers |-> 0, ready |-> FALSE]
    /\ rdyLast.op = "health"

\* C38: a call of DoWithBackoff that has returned has called client.Do at
\* least once, also when the context was cancelled on entry; an attempt that
\* returns a response ends the call with that response and a nil error,
\* whether or not the context is cancelled; and the cancellation error is
\* returned only from the select that follows a failed attempt.
C38_Inv ==
    /\ retryPc = "done" => calls >= 1
    /\ retErr = "ctx" => (ctxDone /\ lastOutcome.kind = "err")

C38_Step ==
    /\ (calls' = calls + 1 /\ lastOutcome'.kind = "resp") =>
          /\ retryPc' = "done"
          /\ retErr' = "nil"
          /\ retResp' = lastOutcome'.status
    /\ (retErr' = "ctx" /\ retErr # "ctx") =>
          /\ retryPc = "select"
          /\ lastOutcome.kind = "err"
          /\ calls' = calls

C38_FirstAttemptIgnoresContext == []C38_Inv /\ [][C38_Step]_vars

\* the context was cancelled before the only attempt, which returned a response
C38_Witness ==
    /\ retryPc = "done"
    /\ calls = 1
    /\ lastOutcome.ctxWasDone
    /\ lastOutcome.kind = "resp"
    /\ retErr = "nil"
    /\ retResp = lastOutcome.status

(***************************************************************************)
(* Who writes the exposition cache, under SpecCache.                       *)
(***************************************************************************)
\* The cache changes only in a step of the refresh loop, a request's answer
\* leaves it as it was, and a request answered while no buffer is cached is
\* answered by its own serialization.
OnlyRefreshLoopWrites ==
    /\ cache' # cache => (refreshPc \in {"lock", "store"} /\ refreshPc' # refreshPc)
    /\ \A g \in Goroutines :
          Answers(g) => /\ cache' = cache
                        /\ ~Cached => (request'[g].serialized /\ ~Cached')

\* C39 as stated: the cache is written only by the refresh loop, and once the
\* context is cancelled the cache does not change any more.
C39_AsStated_Step ==
    /\ OnlyRefreshLoopWrites
    /\ cacheCtxDone => cache' = cache

C39_AsStated == [][C39_AsStated_Step]_vars

\* C39, amended: the cache is written only by the refresh loop, a request
\* answered while no buffer is cached is answered by its own serialization
\* and leaves the cache empty, and once the refresh loop has returned, which
\* it does only after the context is cancelled, the cache does not change any
\* more and every later request is answered with that same buffer. A refresh
\* the loop had begun before the cancellation, or begins from a tick that
\* waited beside it, still stores its buffer.
C39_Inv == refreshPc = "stopped" => (cacheCtxDone /\ ~cacheWriter)

C39_Step ==
    /\ OnlyRefreshLoopWrites
    /\ refreshPc = "stopped" =>
          /\ cache' = cache
          /\ refreshPc' = "stopped"
          /\ \A g \in Goroutines :
                Answers(g) => request'[g].resp = IF Cached THEN cache ELSE Serialize(metricsVersion)

C39_CacheWrittenByRefreshOnly == []C39_Inv /\ [][C39_Step]_vars

\* the loop has returned with an older buffer cached; one request was answered
\* from it and the other, earlier, by its own serialization
C39_Witness ==
    /\ refreshPc = "stopped"
    /\ cacheCtxDone
    /\ cache = Serialize(1)
    /\ metricsVersion = 2
    /\ \E g, h \in Goroutines :
          /\ request[g].served /\ ~request[g].serialized /\ request[g].resp = cache
          /\ request[h].served /\ request[h].serialized /\ request[h].resp = Serialize(0)

(***************************************************************************)
(* The elapsed time of the telemetry pass, under SpecTelemetry.            *)
(***************************************************************************)
\* C40: every speed and every discrepancy ratio an iteration publishes has a
\* divisor above 0; an iteration that finds a prior record of the vehicle
\* whose time is not before the new observation publishes neither a speed nor
\* a ratio, and it still replaces the record by the new observation.
C40_Step ==
    (lastIter'.done /\ ~lastIter'.skipped) =>
       LET v == lastIter'.vehicle
           ok == HasRecord(vStore, teleServer, v.id)
           prev == RecordOf(vStore, teleServer, v.id)
           elapsed == SeenAt(v) - prev.Time
       IN  /\ lastIter'.speed # NotPublished => lastIter'.speed[2] > 0
           /\ lastIter'.ratio # NotPublished => lastIter'.ratio[2] > 0
           /\ (ok /\ elapsed <= 0) =>
                 /\ lastIter'.speed = NotPublished
                 /\ lastIter'.ratio = NotPublished
           /\ HasRecord(vStore', teleServer, v.id)
           /\ RecordOf(vStore', teleServer, v.id) = [Time |-> SeenAt(v), Pos |-> v.pos]

C40_NoDivisionByNonPositiveTime == [][C40_Step]_vars

\* a vehicle with a record, a self-reported speed and a timestamp before the
\* clock's reading was handled: nothing published, the record is the new
\* observation
C40_Witness ==
    /\ lastIter.done
    /\ ~lastIter.skipped
    /\ lastIter.ok
    /\ lastIter.vehicle.speed = 2
    /\ lastIter.vehicle.ts = 0
    /\ lastIter.vehicle.pos = 1
    /\ teleNow >= 1
    /\ lastIter.speed = NotPublished
    /\ lastIter.ratio = NotPublished
    /\ RecordOf(vStore, teleServer, lastIter.vehicle.id) = [Time |-> 0, Pos |-> 1]

====
